---------------------------- MODULE Spec2Model ----------------------------
(***************************************************************************)
(* A model of FTPSync.py (SublimeText2-FTPSync): the config resolver and   *)
(* its cache, the connection pool, the sync commands and the timers.       *)
(***************************************************************************)
EXTENDS Integers, Sequences, FiniteSets, TLC

(***************************************************************************)
(* PART I.  Config resolver and cache (FTPSync.py lines 192-252, 1398-1414) *)
(*                                                                         *)
(* A path is a sequence of components, a component a sequence of           *)
(* characters; startswith is Python's string prefix on the joined text.    *)
(***************************************************************************)

VARIABLES
    configs,     \* the config cache: file path -> config file path
    fsConfig,    \* the directories that hold a config file on disk
    lastQuery,   \* the latest getConfigFile call: path, result, previous answer
    answered,    \* per path, the answer given since the latest invalidation
    lastNew,     \* the latest FtpSyncNewSettings.run: directory and outcome
    layoutChanged  \* a config file was created since the start

cfgVars == <<configs, fsConfig, lastQuery, answered, lastNew, layoutChanged>>

\* The state of PART II.
VARIABLES
    cfgfile,           \* the content of the project's config file
    handles,           \* every connection object created so far (id = index)
    lists,             \* every pool list object created so far (id = index)
    connections,       \* the pool cache: config hash -> list object
    usingConnections,  \* the in-use list of config hashes
    scheduledUploads,  \* file path -> token of the latest scheduled upload
    timers,            \* pending sublime.set_timeout callbacks, in scheduling order
    cmds,              \* every command object created so far (id = index)
    remote,            \* log: the remote calls made, with command and thread
    puts,              \* log: the put calls made
    fails,             \* remote failures the network may still produce
    edits,             \* edits of the config file still to come
    lastIdle,          \* log: the latest fire of an idle-expiry timer
    lastAcq            \* log: the latest cache lookup of getConnection

mainVars == <<cfgfile, handles, lists, connections, usingConnections,
              scheduledUploads, timers, cmds, remote, puts, fails, edits,
              lastIdle, lastAcq>>

\* The state of PART III: one connection entry under verification.
VARIABLES
    entry,      \* the merged connection entry: key -> type of its value
    muts,       \* changes of the entry still to come
    verified    \* what verifyConfig gave for the entry (Unset: not called)

verifyVars == <<entry, muts, verified>>

\* The state of PART IV: one rename or download command on its pool.
VARIABLES
    xcmd,       \* the command object and the position of its execute
    xhas,       \* the connections on whose remote the new name exists
    xlog,       \* log: the remote calls attempted, in order
    xfails      \* remote failures the network may still produce

xferVars == <<xcmd, xhas, xlog, xfails>>

\* The state of PART V: one staleness check.
VARIABLES
    chkLocal,   \* the local file: modification time and size
    chkMeta,    \* the metadata returned by SyncCommandGetMetadata.execute
    chkOut,     \* what performRemoteCheck did with it (Unset: not run)
    chkQuery    \* the caller's arguments and the connections that were queried

checkVars == <<chkLocal, chkMeta, chkOut, chkQuery>>

\* The state of PART VI: an upload followed by a forced download.
VARIABLES
    trip        \* the two commands, the local file and the remote copies

tripVars == <<trip>>

\* The state of PART VII: one command from its constructor to its execute.
VARIABLES
    ctor        \* the constructor's arguments and the command object

ctorVars == <<ctor>>

\* The state of PART VIII: saves of one file under overwrite prevention.
VARIABLES
    saving      \* the prevent-list, the pending prompts and the saves so far

saveVars == <<saving>>

\* The state of PART IX: one on-save upload and its watch cascade.
VARIABLES
    watch       \* the command, its timers, the watched files and the uploads

watchVars == <<watch>>

\* The state of PART X: views of files being opened and closed.
VARIABLES
    opening     \* the views, checksScheduled, the pending timers and their fires

openVars == <<opening>>

unitVars ==
    <<verifyVars, xferVars, checkVars, tripVars, ctorVars, saveVars, watchVars, openVars>>

vars == <<cfgVars, mainVars, unitVars>>


\* Deepest directory nesting of the modelled tree.
MaxDepth == 2

\* None (Python): no path is empty.
None == <<>>

\* 'ftpsync.settings'
configName == <<"s">>

RECURSIVE Chain(_)
Chain(n) == IF n = 0 THEN <<>> ELSE Append(Chain(n - 1), <<"a">>)

\* /a, /a/a, ... and the directory /ab, whose text starts with the text of /a.
Dirs == {Chain(n) : n \in 1..MaxDepth} \cup {<< <<"a", "b">> >>}

\* one file in every directory
Files == {Append(d, <<"f">>) : d \in Dirs}

RECURSIVE Text(_)
Text(p) == IF p = <<>> THEN <<>> ELSE <<"/">> \o Head(p) \o Text(Tail(p))

\* str.startswith
startswith(s, t) ==
    /\ Len(Text(t)) <= Len(Text(s))
    /\ SubSeq(Text(s), 1, Len(Text(t))) = Text(t)

\* os.path.dirname
dirname(p) == SubSeq(p, 1, Len(p) - 1)

\* os.path.join(folder, name)
join(folder, name) == Append(folder, name)

\* ftpsyncfiles.getFolders: the ancestor directories of a path, deepest first.
getFolders(file_path) ==
    [i \in 1..(Len(file_path) - 1) |-> SubSeq(file_path, 1, Len(file_path) - i)]

\* ftpsyncfiles.findFile: the first folder of the list that holds the file.
findFile(folders, fs) ==
    IF \E i \in 1..Len(folders) : folders[i] \in fs
    THEN folders[CHOOSE i \in 1..Len(folders) :
                    /\ folders[i] \in fs
                    /\ \A j \in 1..(i - 1) : folders[j] \notin fs]
    ELSE None

findConfigFile(folders, fs) == findFile(folders, fs)

\* getConfigFile with the join of line 247 forgotten.
getConfigFileNoJoin(cache, fs, file_path) ==
    IF file_path \in DOMAIN cache
    THEN [result |-> cache[file_path], cache |-> cache, hit |-> TRUE]
    ELSE LET configFolder == findConfigFile(getFolders(file_path), fs)
         IN  IF configFolder = None
             THEN [result |-> None, cache |-> cache, hit |-> FALSE]
             ELSE [result |-> configFolder,
                   cache |-> [q \in DOMAIN cache \cup {file_path} |->
                               IF q = file_path THEN configFolder ELSE cache[q]],
                   hit |-> FALSE]

\* getConfigFile: the cached entry, else the walk; only a found config is cached.
getConfigFile(cache, fs, file_path) ==
    IF file_path \in DOMAIN cache
    THEN [result |-> cache[file_path], cache |-> cache, hit |-> TRUE]
    ELSE LET folders == getFolders(file_path)
             configFolder == findConfigFile(folders, fs)
         IN  IF Len(folders) = 0 \/ configFolder = None
             THEN [result |-> None, cache |-> cache, hit |-> FALSE]
             ELSE LET config == join(configFolder, configName)
                  IN  [result |-> config,
                       cache |-> [q \in DOMAIN cache \cup {file_path} |->
                                   IF q = file_path THEN config ELSE cache[q]],
                       hit |-> FALSE]

\* The entries line 201 selects for removal.
invalidateMatches(cache, config_dir_name) ==
    {file_path \in DOMAIN cache :
        /\ startswith(file_path, config_dir_name)
        /\ (cache[file_path] = None \/ startswith(config_dir_name, cache[file_path]))}

\* invalidateConfigCache: a dict has no remove, so a selected entry raises
\* AttributeError; no entry is ever removed.
invalidateConfigCache(cache, config_dir_name) ==
    [cache |-> cache, raised |-> invalidateMatches(cache, config_dir_name) # {}]

CfgInit ==
    /\ configs = << >>
    /\ fsConfig \in SUBSET Dirs
    /\ lastQuery = [path |-> None, result |-> None, hit |-> FALSE, prev |-> <<"unset">>]
    /\ answered = [p \in Files |-> <<"unset">>]
    /\ lastNew = [dir |-> None, raised |-> FALSE]
    /\ layoutChanged = FALSE

\* Any caller of getConfigFile (the event handlers and the commands).
Resolve(p) ==
    LET r == getConfigFile(configs, fsConfig, p)
    IN  /\ configs' = r.cache
        /\ lastQuery' = [path |-> p, result |-> r.result, hit |-> r.hit,
                         prev |-> answered[p]]
        /\ answered' = [answered EXCEPT ![p] = r.result]
        /\ UNCHANGED <<fsConfig, lastNew, layoutChanged>>
        /\ UNCHANGED <<mainVars, unitVars>>

\* FtpSyncNewSettings.run for one directory.
NewSettings(directory) ==
    LET inv == invalidateConfigCache(configs, directory)
    IN  /\ configs' = inv.cache
        /\ lastNew' = [dir |-> directory, raised |-> inv.raised]
        /\ fsConfig' = IF inv.raised THEN fsConfig ELSE fsConfig \cup {directory}
        /\ layoutChanged' = (layoutChanged \/ fsConfig' # fsConfig)
        /\ answered' = [p \in Files |-> <<"unset">>]
        /\ lastQuery' = [path |-> None, result |-> None, hit |-> FALSE,
                         prev |-> <<"unset">>]
        /\ UNCHANGED <<mainVars, unitVars>>

CfgNext ==
    \/ \E p \in Files : Resolve(p)
    \/ \E d \in Dirs : NewSettings(d)


\* The config file of the nearest ancestor directory that holds one.
Nearest(fs, p) ==
    LET anc == {d \in fs : Len(d) < Len(p) /\ SubSeq(p, 1, Len(d)) = d}
    IN  IF anc = {} THEN None
        ELSE join(CHOOSE d \in anc : \A e \in anc : Len(e) <= Len(d), configName)


(***************************************************************************)
(* PART II.  Connection pool, sync commands, timers (lines 111-118,        *)
(* 447-602, 635-847, 1042-1080, 1192-1332, 1455-1460).                     *)
(*                                                                         *)
(* One project: its config file is ConfigFile and its tracked file is      *)
(* TrackedFile.  Worker threads (RemoteSyncCall) and the editor's UI       *)
(* thread (event handlers, set_timeout callbacks) interleave between the   *)
(* steps below; each step ends where the code blocks on the network.       *)
(***************************************************************************)

\* Bounds of the model.
MaxCmds == 3
MaxHandles == 4
MaxLists == 3
MaxFails == 1
MaxEdits == 1
MaxThreads == 2

\* settings.get('connection_timeout'), in seconds
connection_timeout == 3

ConfigFile == "cf"
TrackedFile == "f"

\* hashlib.md5(file_path).hexdigest(): one digest per path
getFilepathHash(file_path) == file_path

\* Python's hash() of an int: -1 is reserved, so hash(-1) = hash(-2) = -2.
PyHashInt(i) == IF i = -1 THEN -2 ELSE i

\* Python's hash() of a bool: hash(True) = 1, hash(False) = 0.
PyHashBool(b) == IF b THEN 1 ELSE 0

\* getObjectHash with a structural comparison in place of hash().
getObjectHashExact(o) == o

\* getObjectHash of a connection's properties: the hash of the set of
\* (key, hash(value)) pairs; a string (the ignore pattern) hashes to itself.
getObjectHash(o) ==
    [uos |-> PyHashBool(o.uos), delay |-> PyHashInt(o.delay), ign |-> o.ign,
     user |-> PyHashBool(o.user), toff |-> PyHashInt(o.toff)]

\* One connection entry of the config file: upload_on_save, upload_delay,
\* ignore (a pattern or "none"), username given, time_offset.
Conn(uos, delay, ign, toff) ==
    [uos |-> uos, delay |-> delay, ign |-> ign, user |-> TRUE, toff |-> toff]

\* re.search(pattern, file_path): the pattern "f" matches the tracked file.
matches(pattern, file_path) == pattern = file_path

\* The config files the model starts from.
CfgDelayed == [order |-> <<"A">>, props |-> [n \in {"A"} |-> Conn(TRUE, 1, "none", -1)]]
CfgNoSave == [order |-> <<"A">>, props |-> [n \in {"A"} |-> Conn(FALSE, 0, "none", 0)]]
PropsAB == [n \in {"A", "B"} |->
              IF n = "A" THEN Conn(TRUE, 0, "none", 0) ELSE Conn(FALSE, 0, "none", 0)]
CfgAB == [order |-> <<"A", "B">>, props |-> PropsAB]
CfgBA == [order |-> <<"B", "A">>, props |-> PropsAB]
Scenarios == {CfgDelayed, CfgNoSave, CfgAB, CfgBA}

\* Two connections that both upload on save, A after da and B after db seconds.
CfgDelays(da, db) ==
    [order |-> <<"A", "B">>,
     props |-> [n \in {"A", "B"} |->
                  Conn(TRUE, IF n = "A" THEN da ELSE db, "none", 0)]]
DelayScenarios == {CfgDelays(da, db) : da \in {0, 1}, db \in {0, 1}}

\* loadConfig: the connections of the file, in the dict's iteration order.
loadConfig(file) == file

\* AbstractConnection.isAlive
isAlive(handle) == ~handle.closed

\* list.remove(x): the list without its first x (unchanged when x is absent)
ListRemove(L, x) ==
    IF \E i \in 1..Len(L) : L[i] = x
    THEN LET k == CHOOSE i \in 1..Len(L) : L[i] = x /\ \A j \in 1..(i - 1) : L[j] # x
         IN  SubSeq(L, 1, k - 1) \o SubSeq(L, k + 1, Len(L))
    ELSE L

\* connection.close(connections, hash): its effect on the pool list of the hash:
\* the closed handle leaves the list.
ConnClose(L, hid) == ListRemove(L, hid)

\* "for connection in connections[hash]: connection.close(connections, hash)":
\* Python's list iterator advances its index while close shortens the list.
RECURSIVE CloseEach(_, _)
CloseEach(L, k) ==
    IF k > Len(L) THEN [closed |-> {}, rest |-> L]
    ELSE LET r == CloseEach(ConnClose(L, L[k]), k + 1)
         IN  [closed |-> {L[k]} \cup r.closed, rest |-> r.rest]

\* The same loop over a copy of the list: every handle is closed.
CloseEachCopy(L, k) ==
    [closed |-> {L[i] : i \in k..Len(L)}, rest |-> SubSeq(L, 1, k - 1)]

MarkClosed(hs, S) ==
    [i \in DOMAIN hs |-> IF i \in S THEN [hs[i] EXCEPT !.closed = TRUE] ELSE hs[i]]

\* usingConnections.remove(hash): the first occurrence
UsingRemove(using, h) == ListRemove(using, h)

InUse(using, h) == \E i \in 1..Len(using) : using[i] = h

\* The filter of SyncCommandTransfer.__init__ (lines 706-726) on the names.
FilterOrder(cmd, order, props) ==
    LET keep(name) ==
            /\ ~(props[name].uos = FALSE /\ cmd.onSave)
            /\ ~(~cmd.disregardIgnore /\ props[name].ign # "none"
                    /\ matches(props[name].ign, cmd.file))
            /\ ~(cmd.whitelist # {} /\ name \notin cmd.whitelist)
    IN  IF cmd.kind = "meta" THEN order ELSE SelectSeq(order, keep)

\* The filter with the upload_on_save test dropped.
FilterOrderNoSaveTest(cmd, order, props) ==
    LET keep(name) ==
            /\ ~(~cmd.disregardIgnore /\ props[name].ign # "none"
                    /\ matches(props[name].ign, cmd.file))
            /\ ~(cmd.whitelist # {} /\ name \notin cmd.whitelist)
    IN  IF cmd.kind = "meta" THEN order ELSE SelectSeq(order, keep)

\* A command object right after the thread or handler that owns it is started;
\* `since`: the commands whose delayed action is pending at that moment;
\* cname, chandle, cid: the variables name, connection and id of execute, which
\* every closure `action` made by the loop reads when it is called; tried,
\* okNames, badNames: the names the rebuild of getConnection went through,
\* those whose stages all succeeded and those with a failed stage; got: the
\* names of the handles in the pool getConnection returned.
NewCmd(kind, thread, onSave, then) ==
    [since |-> {timers[t].cmd : t \in {x \in 1..Len(timers) : timers[x].kind = "upload"}},
     kind |-> kind, thread |-> thread, file |-> TrackedFile, onSave |-> onSave,
     disregardIgnore |-> FALSE, whitelist |-> {}, then |-> then,
     pc |-> "new", closed |-> FALSE, hasHash |-> FALSE,
     order |-> <<>>, props |-> << >>, conns |-> 0, bi |-> 1, i |-> 1,
     delayed |-> FALSE, hasDelayed |-> FALSE, stored |-> {}, pending |-> 0,
     cancels |-> 0, failures |-> 0, emptyAtStart |-> FALSE, aligned |-> FALSE,
     stale |-> "none", superseded |-> 0,
     cname |-> "", chandle |-> 0, cid |-> <<>>,
     tried |-> 0, okNames |-> <<>>, badNames |-> {}, got |-> <<>>]

Live(c) == cmds[c].pc \in {"new", "build", "exec", "loop"}

\* The threads (the UI handler included) that are inside a command.
Threads == {c \in 1..Len(cmds) : Live(c)}

\* The UI thread is inside a handler that runs a command.
UIBusy == \E c \in 1..Len(cmds) : cmds[c].thread = "ui" /\ Live(c)

\* The state at plugin load with one of `files` as the config file; the network
\* fails at most nfails times and the file is edited at most nedits times.
MainInit(files, nfails, nedits) ==
    /\ cfgfile \in files
    /\ handles = <<>>
    /\ lists = <<>>
    /\ connections = << >>
    /\ usingConnections = <<>>
    /\ scheduledUploads = << >>
    /\ timers = <<>>
    /\ cmds = <<>>
    /\ remote = {}
    /\ puts = {}
    /\ fails = nfails
    /\ edits = nedits
    /\ lastIdle = [fired |-> FALSE, inUse |-> FALSE, pool |-> <<>>, busy |-> {},
                   evicted |-> FALSE, rearmed |-> FALSE, untouched |-> FALSE,
                   early |-> FALSE]
    /\ lastAcq = [cmd |-> 0, cached |-> FALSE, full |-> FALSE, alive |-> FALSE,
                  same |-> FALSE, oneDiff |-> FALSE, hit |-> FALSE,
                  closedOld |-> FALSE, wasEmpty |-> FALSE, short |-> FALSE]

Hash == getFilepathHash(ConfigFile)

Log(c, thread, calls) == {[cmd |-> c, thread |-> thread, call |-> x] : x \in calls}

\* The rebuilds of getConnection that returned a pool so far.
Builds ==
    Cardinality({c \in 1..Len(cmds) :
                    cmds[c].tried > 0 /\ cmds[c].pc \notin {"new", "build", "crashed"}})

\* built: the rebuilds that had returned when the timer was set.
IdleTimer(h, built) ==
    [kind |-> "idle", hash |-> h, cmd |-> 0, name |-> "", handle |-> 0,
     token |-> <<>>, delay |-> connection_timeout, built |-> built]

UploadTimer(c, name, hid, token, delay) ==
    [kind |-> "upload", hash |-> Hash, cmd |-> c, name |-> name, handle |-> hid,
     token |-> token, delay |-> delay, built |-> 0]

\* set_timeout callbacks run on the UI thread in the order of their deadlines:
\* a callback scheduled earlier with a delay not longer runs first.
Fireable(k) == \A j \in 1..(k - 1) : timers[j].delay > timers[k].delay

DropTimer(k) == SubSeq(timers, 1, k - 1) \o SubSeq(timers, k + 1, Len(timers))

\* SyncCommand.__del__ (lines 683-685)
SyncCommandDel(cmd, using) ==
    IF cmd.hasHash /\ InUse(using, Hash) THEN UsingRemove(using, Hash) ELSE using

\* SyncCommand.__del__ releasing only what the command itself marked.
SyncCommandDelOwn(cmd, using) ==
    IF cmd.hasHash /\ cmd.pc \in {"loop", "done"} /\ InUse(using, Hash)
    THEN UsingRemove(using, Hash) ELSE using

\* SyncCommandUpload.__del__ (lines 844-846); a command whose constructor
\* raised has no attribute 'delayed' and its __del__ raises (ignored).
Del(cmd, using) ==
    IF cmd.kind = "upload"
    THEN IF cmd.hasDelayed /\ ~cmd.delayed THEN SyncCommandDel(cmd, using) ELSE using
    ELSE SyncCommandDel(cmd, using)

\* closeConnection (lines 584-602)
closeConnection(h) ==
    IF h \notin DOMAIN connections
    THEN [handles |-> handles, lists |-> lists, connections |-> connections,
          closed |-> {}]
    ELSE LET lid == connections[h]
             r == CloseEach(lists[lid], 1)
         IN  [handles |-> MarkClosed(handles, r.closed),
              lists |-> [lists EXCEPT ![lid] = r.rest],
              connections |-> IF Len(r.rest) = 0
                              THEN [x \in DOMAIN connections \ {h} |-> connections[x]]
                              ELSE connections,
              closed |-> r.closed]

\* The end of a constructor: the filter of SyncCommandTransfer.__init__ and
\* lines 735-736 of SyncCommandUpload.__init__.
Constructed(cmd, lid, hs, ls) ==
    [cmd EXCEPT !.pc = "exec", !.conns = lid, !.hasDelayed = TRUE,
                !.got = [i \in 1..Len(ls[lid]) |-> hs[ls[lid][i]].name],
                !.order = FilterOrder(cmd, cmd.order, cmd.props),
                !.aligned = /\ Len(ls[lid]) = Len(cmd.order)
                            /\ \A i \in 1..Len(cmd.order) :
                                  /\ hs[ls[lid][i]].name = cmd.order[i]
                                  /\ ~hs[ls[lid][i]].closed]

\* An exception leaves the constructor: the thread (or handler) ends.
Crashed(cmd) == [cmd EXCEPT !.pc = "crashed"]

\* The command objects after command c became rec; when rec ends the
\* on_pre_save handler, on_post_save (lines 1255-1262) starts the upload thread.
Finish(c, rec) ==
    LET cs == [cmds EXCEPT ![c] = rec]
    IN  IF rec.then = "postsave" /\ rec.pc \in {"done", "dead", "crashed"}
        THEN Append(cs, NewCmd("upload", "worker", TRUE, "none"))
        ELSE cs

\* on_pre_save (lines 1195-1219) and on_post_save (1255-1262): the metadata
\* command runs in the handler itself; the upload command gets a thread.
Save ==
    /\ ~UIBusy
    /\ Cardinality(Threads) < MaxThreads
    /\ LET config == loadConfig(cfgfile)
           blacklist == {i \in 1..Len(config.order) : ~config.props[config.order[i]].uos}
       IN  IF Cardinality(blacklist) = Len(config.order)
           THEN /\ Len(cmds) < MaxCmds
                /\ cmds' = Append(cmds, NewCmd("upload", "worker", TRUE, "none"))
           ELSE /\ Len(cmds) + 1 < MaxCmds
                /\ cmds' = Append(cmds, NewCmd("meta", "ui", FALSE, "postsave"))
    /\ UNCHANGED <<cfgfile, handles, lists, connections, usingConnections,
                   scheduledUploads, timers, remote, puts, fails, edits,
                   lastIdle, lastAcq>>
    /\ UNCHANGED <<cfgVars, unitVars>>

\* FtpSyncCurrent.run (lines 1456-1460): an explicit upload of the file.
UploadCurrent ==
    /\ ~UIBusy
    /\ Cardinality(Threads) < MaxThreads
    /\ Len(cmds) < MaxCmds
    /\ cmds' = Append(cmds, NewCmd("upload", "worker", FALSE, "none"))
    /\ UNCHANGED <<cfgfile, handles, lists, connections, usingConnections,
                   scheduledUploads, timers, remote, puts, fails, edits,
                   lastIdle, lastAcq>>
    /\ UNCHANGED <<cfgVars, unitVars>>

\* RemoteSync.on_close (lines 1264-1273)
CloseFile ==
    /\ ~UIBusy
    /\ Hash \in DOMAIN connections
    /\ LET r == closeConnection(Hash)
       IN  /\ handles' = r.handles
           /\ lists' = r.lists
           /\ connections' = r.connections
           /\ remote' = remote \cup
                 (IF r.closed = {} THEN {} ELSE Log(0, "ui", {"close"}))
    /\ UNCHANGED <<cfgfile, usingConnections, scheduledUploads, timers, cmds,
                   puts, fails, edits, lastIdle, lastAcq>>
    /\ UNCHANGED <<cfgVars, unitVars>>

\* SyncCommand.__init__ (lines 640-654) up to the cache lookup of getConnection
\* (lines 461-492); on a hit the constructor ends here.
Construct(c) ==
    /\ cmds[c].pc = "new"
    /\ LET config == loadConfig(cfgfile)
           cmd == [cmds[c] EXCEPT !.hasHash = TRUE, !.order = config.order,
                                  !.props = config.props,
                                  !.emptyAtStart = (connections = << >>)]
           cached == Hash \in DOMAIN connections
           L == IF cached THEN lists[connections[Hash]] ELSE <<>>
           short == Len(L) < Len(config.order)
           valid == \A i \in 1..Len(config.order) :
                       getObjectHash(handles[L[i]].config)
                           = getObjectHash(config.props[config.order[i]])
           alive == \A i \in 1..Len(L) : isAlive(handles[L[i]])
           hit == cached /\ ~short /\ valid /\ alive
           cl == IF cached /\ ~short /\ ~valid
                 THEN CloseEach(L, 1) ELSE [closed |-> {}, rest |-> L]
           names == Len(L) = Len(config.order)
                    /\ \A i \in 1..Len(L) : handles[L[i]].name = config.order[i]
           ndiff == Cardinality({<<i, k>> \in (1..Len(L)) \X
                                     {"uos", "delay", "ign", "user", "toff"} :
                        handles[L[i]].config[k] # config.props[config.order[i]][k]})
       IN  /\ lastAcq' = [cmd |-> c, cached |-> cached, full |-> cached /\ names,
                          alive |-> alive, same |-> names /\ ndiff = 0,
                          oneDiff |-> names /\ ndiff = 1, hit |-> hit,
                          closedOld |-> cl.closed = {L[i] : i \in 1..Len(L)},
                          wasEmpty |-> Len(L) = 0, short |-> cached /\ short]
           /\ IF hit
              THEN /\ cmds' = [cmds EXCEPT
                                ![c] = Constructed(cmd, connections[Hash], handles, lists)]
                   /\ UNCHANGED <<handles, lists, connections, remote>>
              ELSE /\ Len(lists) < MaxLists
                   /\ handles' = MarkClosed(handles, cl.closed)
                   /\ lists' = Append(IF cached
                                      THEN [lists EXCEPT ![connections[Hash]] = cl.rest]
                                      ELSE lists, <<>>)
                   /\ connections' = [x \in DOMAIN connections \cup {Hash} |->
                                        IF x = Hash THEN Len(lists) + 1
                                        ELSE connections[x]]
                   /\ remote' = remote \cup
                         (IF cl.closed = {} THEN {}
                          ELSE Log(c, cmds[c].thread, {"close"}))
                   /\ cmds' = [cmds EXCEPT ![c] = [cmd EXCEPT !.pc = "build", !.bi = 1]]
    /\ UNCHANGED <<cfgfile, usingConnections, scheduledUploads, timers, puts,
                   fails, edits, lastIdle>>
    /\ UNCHANGED <<cfgVars, unitVars>>

\* The remote calls of the pipeline of lines 498-554 that ends at `stage`.
StageCalls(stage, user) ==
    CASE stage = "init" -> {}
      [] stage = "connect" -> {"connect", "close"}
      [] stage = "auth" -> {"connect", "authenticate"}
      [] stage = "login" -> {"connect", "authenticate", "login"}
      [] OTHER -> {"connect", "authenticate", "cwd"}
                    \cup (IF user THEN {"login"} ELSE {})

\* One pass of the rebuild loop of getConnection (lines 495-563) for the next
\* declared name; after the last name the idle timer is armed (565-572), the
\* list is returned (575) and the constructor ends.
BuildOne(c) ==
    /\ cmds[c].pc = "build"
    /\ LET cmd == cmds[c]
           name == cmd.order[cmd.bi]
           properties == cmd.props[name]
           last == cmd.bi >= Len(cmd.order)
           gone == Hash \notin DOMAIN connections
       IN  IF cmd.bi > Len(cmd.order)
           THEN \* no connection is declared
                /\ timers' = Append(timers, IdleTimer(Hash, Builds))
                /\ cmds' = Finish(c, IF gone THEN Crashed(cmd)
                                     ELSE Constructed(cmd, connections[Hash], handles, lists))
                /\ usingConnections' = IF gone THEN Del(cmd, usingConnections)
                                       ELSE usingConnections
                /\ UNCHANGED <<handles, lists, remote, fails>>
           ELSE \E stage \in {"ok", "init", "connect", "auth", "login", "cwd"} :
                /\ stage # "ok" => fails > 0
                /\ stage = "login" => properties.user
                /\ stage # "init" => Len(handles) < MaxHandles
                /\ fails' = IF stage = "ok" THEN fails ELSE fails - 1
                /\ remote' = remote \cup Log(c, cmd.thread, StageCalls(stage, properties.user))
                /\ LET hid == Len(handles) + 1
                       handle == [name |-> name, config |-> properties, builder |-> c,
                                  closed |-> stage = "connect"]
                       hs == IF stage = "init" THEN handles ELSE Append(handles, handle)
                       raised == stage = "ok" /\ gone
                       present == ~gone /\ \E i \in 1..Len(lists[connections[Hash]]) :
                                     handles[lists[connections[Hash]][i]].name = name
                       ls == IF stage = "ok" /\ ~gone /\ ~present
                             THEN [lists EXCEPT ![connections[Hash]] = Append(@, hid)]
                             ELSE lists
                       cmdb == [cmd EXCEPT
                                  !.tried = @ + 1,
                                  !.okNames = IF stage = "ok" THEN Append(@, name) ELSE @,
                                  !.badNames = IF stage = "ok" THEN @ ELSE @ \cup {name}]
                   IN  /\ handles' = hs
                       /\ lists' = ls
                       /\ IF raised \/ (last /\ gone)
                          THEN /\ cmds' = Finish(c, Crashed(cmdb))
                               /\ usingConnections' = Del(cmdb, usingConnections)
                               /\ timers' = IF raised THEN timers
                                            ELSE Append(timers, IdleTimer(Hash, Builds))
                          ELSE IF last
                          THEN /\ timers' = Append(timers, IdleTimer(Hash, Builds + 1))
                               /\ usingConnections' = usingConnections
                               /\ cmds' = [cmds EXCEPT ![c] =
                                            Constructed(cmdb, connections[Hash], hs, ls)]
                          ELSE /\ timers' = timers
                               /\ usingConnections' = usingConnections
                               /\ cmds' = [cmds EXCEPT ![c] = [cmdb EXCEPT !.bi = @ + 1]]
    /\ UNCHANGED <<cfgfile, connections, scheduledUploads, puts, edits, lastIdle, lastAcq>>
    /\ UNCHANGED <<cfgVars, unitVars>>

\* The put of a handle: a closed handle raises; an open one may fail.
PutOutcomes(hid) ==
    IF handles[hid].closed THEN {"fail"}
    ELSE {"ok"} \cup (IF fails > 0 THEN {"fail"} ELSE {})

\* The closure `action` of SyncCommandUpload.execute (lines 788-819), run for
\* command cmd (object c), connection `name`, handle hid and token id, on
\* thread thr, with put ending in `outcome`.  how: what the call came to.
action(c, cmd, name, hid, id, thr, sched, using, outcome) ==
    IF cmd.file \notin DOMAIN sched
    THEN \* line 792 raises KeyError, reported as "upload failed" by line 818
         [sched |-> sched, using |-> using, puts |-> {}, failed |-> FALSE,
          cmd |-> [cmd EXCEPT !.failures = @ + 1], how |-> "error"]
    ELSE IF sched[cmd.file] # id
    THEN [sched |-> sched, using |-> using, puts |-> {}, failed |-> FALSE,
          cmd |-> cmd, how |-> "noop"]
    ELSE IF outcome = "fail"
    THEN [sched |-> sched, using |-> using, failed |-> ~handles[hid].closed,
          puts |-> {[cmd |-> c, name |-> name, handle |-> hid, thread |-> thr]},
          cmd |-> [cmd EXCEPT !.failures = @ + 1], how |-> "putfail"]
    ELSE LET cmd1 == [cmd EXCEPT !.stored = @ \cup {name}]
             cmd2 == [cmd1 EXCEPT !.delayed = FALSE]
         IN  [sched |-> [x \in DOMAIN sched \ {cmd.file} |-> sched[x]],
              using |-> IF cmd.delayed THEN Del(cmd2, using) ELSE using,
              puts |-> {[cmd |-> c, name |-> name, handle |-> hid, thread |-> thr]},
              failed |-> FALSE,
              cmd |-> IF cmd.delayed THEN cmd2 ELSE cmd1, how |-> "put"]

\* The closure with the token test of lines 791-793 dropped.
actionNoToken(c, cmd, name, hid, id, thr, sched, using, outcome) ==
    IF cmd.file \notin DOMAIN sched
    THEN [sched |-> sched, using |-> using, puts |-> {}, failed |-> FALSE,
          cmd |-> [cmd EXCEPT !.failures = @ + 1], how |-> "error"]
    ELSE LET cmd1 == [cmd EXCEPT !.stored = @ \cup {name}]
             cmd2 == [cmd1 EXCEPT !.delayed = FALSE]
         IN  [sched |-> [x \in DOMAIN sched \ {cmd.file} |-> sched[x]],
              using |-> IF cmd.delayed THEN Del(cmd2, using) ELSE using,
              puts |-> {[cmd |-> c, name |-> name, handle |-> hid, thread |-> thr]},
              failed |-> FALSE,
              cmd |-> IF cmd.delayed THEN cmd2 ELSE cmd1, how |-> "put"]

\* execute returns: the thread drops the command object, which is finalized
\* unless a pending callback still holds it.
Returned(cmd) == [cmd EXCEPT !.pc = IF cmd.pending > 0 THEN "done" ELSE "dead"]

\* The head of execute (lines 749-776, 1044-1055): the two guards, then the
\* in-use mark.
Execute(c) ==
    /\ cmds[c].pc = "exec"
    /\ LET cmd == cmds[c]
       IN  IF cmd.closed \/ Len(cmd.order) = 0
           THEN /\ cmds' = Finish(c, Returned([cmd EXCEPT !.cancels = @ + 1]))
                /\ usingConnections' = Del(cmd, usingConnections)
           ELSE /\ cmds' = [cmds EXCEPT ![c] = [cmd EXCEPT !.pc = "loop", !.i = 1]]
                /\ usingConnections' = Append(usingConnections, Hash)
    /\ UNCHANGED <<cfgfile, handles, lists, connections, scheduledUploads, timers,
                   remote, puts, fails, edits, lastIdle, lastAcq>>
    /\ UNCHANGED <<cfgVars, unitVars>>

\* One pass of the loop of execute over the applicable connections (lines
\* 778-839 for an upload, 1057-1078 for a metadata query); after the last
\* pass execute returns.
Step(c) ==
    /\ cmds[c].pc = "loop"
    /\ LET cmd == cmds[c]
           name == cmd.order[cmd.i]
           L == lists[cmd.conns]
           last == cmd.i >= Len(cmd.order)
           next(rec) == IF last THEN Returned(rec) ELSE [rec EXCEPT !.i = @ + 1]
           done(rec, using) ==
               /\ cmds' = Finish(c, next(rec))
               /\ usingConnections' =
                     IF last /\ rec.pending = 0 THEN Del(rec, using) ELSE using
       IN  IF cmd.i > Len(L)
           THEN \* IndexError: the connection is skipped
                /\ done(cmd, usingConnections)
                /\ UNCHANGED <<scheduledUploads, timers, remote, puts, fails>>
           ELSE IF cmd.kind = "meta"
           THEN /\ remote' = remote \cup Log(c, cmd.thread, {"list"})
                /\ done(cmd, usingConnections)
                /\ UNCHANGED <<scheduledUploads, timers, puts, fails>>
           ELSE LET hid == L[cmd.i]
                    id == <<c, cmd.i>>
                    cmdc == [cmd EXCEPT !.cname = name, !.chandle = hid, !.cid = id]
                    sched == [x \in DOMAIN scheduledUploads \cup {cmd.file} |->
                                IF x = cmd.file THEN id ELSE scheduledUploads[x]]
                    marked == [k \in 1..Len(cmds) |->
                                 IF /\ k # c
                                    /\ k \in cmd.since
                                    /\ cmds[k].superseded = 0
                                    /\ \E t \in 1..Len(timers) :
                                          /\ timers[t].kind = "upload"
                                          /\ timers[t].cmd = k
                                          /\ cmds[k].file = cmd.file
                                 THEN [cmds[k] EXCEPT !.superseded = c]
                                 ELSE cmds[k]]
                IN  IF cmd.onSave /\ cmd.props[name].delay > 0
                    THEN /\ scheduledUploads' = sched
                         /\ timers' = Append(timers,
                               UploadTimer(c, name, hid, id, cmd.props[name].delay))
                         /\ cmds' = [marked EXCEPT ![c] =
                               next([cmdc EXCEPT !.delayed = TRUE, !.pending = @ + 1])]
                         /\ UNCHANGED <<usingConnections, remote, puts, fails>>
                    ELSE \E outcome \in PutOutcomes(hid) :
                         LET r == action(c, cmdc, name, hid, id, cmd.thread, sched,
                                         usingConnections, outcome)
                         IN  /\ scheduledUploads' = r.sched
                             /\ puts' = puts \cup r.puts
                             /\ remote' = remote \cup
                                   (IF r.puts = {} THEN {} ELSE Log(c, cmd.thread, {"put"}))
                             /\ fails' = IF r.failed THEN fails - 1 ELSE fails
                             /\ cmds' = [marked EXCEPT ![c] = next(r.cmd)]
                             /\ usingConnections' =
                                   IF last /\ r.cmd.pending = 0
                                   THEN Del(r.cmd, r.using) ELSE r.using
                             /\ timers' = timers
    /\ UNCHANGED <<cfgfile, handles, lists, connections, edits, lastIdle, lastAcq>>
    /\ UNCHANGED <<cfgVars, unitVars>>

\* A delayed upload's callback (scheduled at line 826) runs on the UI thread;
\* it finds name, connection and id as the loop of execute last assigned them.
FireUpload(k) ==
    /\ ~UIBusy
    /\ timers[k].kind = "upload"
    /\ Fireable(k)
    /\ LET t == timers[k]
           c == t.cmd
       IN  \E outcome \in PutOutcomes(cmds[c].chandle) :
           LET r == action(c, cmds[c], cmds[c].cname, cmds[c].chandle, cmds[c].cid, "ui",
                           scheduledUploads, usingConnections, outcome)
               rec == [r.cmd EXCEPT !.pending = @ - 1, !.stale = r.how]
               freed == rec.pending = 0 /\ rec.pc = "done"
           IN  /\ scheduledUploads' = r.sched
               /\ puts' = puts \cup r.puts
               /\ remote' = remote \cup
                     (IF r.puts = {} THEN {} ELSE Log(c, "ui", {"put"}))
               /\ fails' = IF r.failed THEN fails - 1 ELSE fails
               /\ cmds' = [cmds EXCEPT ![c] =
                             IF freed THEN [rec EXCEPT !.pc = "dead"] ELSE rec]
               /\ usingConnections' = IF freed THEN Del(rec, r.using) ELSE r.using
    /\ timers' = DropTimer(k)
    /\ UNCHANGED <<cfgfile, handles, lists, connections, edits, lastIdle, lastAcq>>
    /\ UNCHANGED <<cfgVars, unitVars>>

\* Commands that entered execute and have not finished their actions.
Busy == {c \in 1..Len(cmds) : cmds[c].pc = "loop" \/ cmds[c].pending > 0}

\* closeThisConnection (lines 566-570), the idle-expiry callback.
FireIdle(k) ==
    /\ ~UIBusy
    /\ timers[k].kind = "idle"
    /\ Fireable(k)
    /\ LET h == timers[k].hash
           inUse == InUse(usingConnections, h)
           r == closeConnection(h)
           pool == IF h \in DOMAIN connections THEN lists[connections[h]] ELSE <<>>
       IN  IF ~inUse
           THEN /\ handles' = r.handles
                /\ lists' = r.lists
                /\ connections' = r.connections
                /\ remote' = remote \cup
                      (IF r.closed = {} THEN {} ELSE Log(0, "ui", {"close"}))
                /\ timers' = DropTimer(k)
                /\ lastIdle' = [fired |-> TRUE, inUse |-> FALSE, pool |-> pool,
                                busy |-> Busy, evicted |-> h \notin DOMAIN r.connections,
                                rearmed |-> FALSE, untouched |-> r.closed = {},
                                early |-> r.closed # {} /\ timers[k].built < Builds]
           ELSE /\ timers' = Append(DropTimer(k), IdleTimer(h, Builds))
                /\ lastIdle' = [fired |-> TRUE, inUse |-> TRUE, pool |-> pool,
                                busy |-> Busy, evicted |-> FALSE,
                                rearmed |-> TRUE, untouched |-> TRUE, early |-> FALSE]
                /\ UNCHANGED <<handles, lists, connections, remote>>
    /\ UNCHANGED <<cfgfile, usingConnections, scheduledUploads, cmds, puts, fails,
                   edits, lastAcq>>
    /\ UNCHANGED <<cfgVars, unitVars>>

\* The user edits one property of one connection in the config file.
EditConfig ==
    /\ edits > 0
    /\ edits' = edits - 1
    /\ \E i \in 1..Len(cfgfile.order) :
         LET n == cfgfile.order[i]
         IN  \/ \E t \in {-2, -1, 0} :
                  /\ t # cfgfile.props[n].toff
                  /\ cfgfile' = [cfgfile EXCEPT !.props[n].toff = t]
             \/ cfgfile' = [cfgfile EXCEPT !.props[n].uos = ~@]
    /\ UNCHANGED <<handles, lists, connections, usingConnections, scheduledUploads,
                   timers, cmds, remote, puts, fails, lastIdle, lastAcq>>
    /\ UNCHANGED <<cfgVars, unitVars>>


(***************************************************************************)
(* PART III.  Procedures checked on their own: verifyConfig (lines         *)
(* 315-373).                                                               *)
(***************************************************************************)

\* Bound of the model: changes made to a valid entry before it is verified.
MaxMuts == 1

Unset == [kind |-> "unset", key |-> ""]

\* The Python types a JSON value (or a default) can have.
Types == {"NoneType", "str", "unicode", "bool", "int", "long", "list", "float"}

\* isString (lines 124-126)
isString(t) == t \in {"str", "unicode"}

\* The list `keys` of line 319.
keys ==
    <<"username", "password", "private_key", "private_key_pass", "path", "tls",
      "upload_on_save", "port", "timeout", "ignore", "check_time",
      "download_on_open", "upload_delay", "after_save_watch", "time_offset">>

\* The type tests of lines 325-371, in their order: key and accepted types.
typeTests ==
    <<[key |-> "username", types |-> {"NoneType", "str", "unicode"}],
      [key |-> "password", types |-> {"NoneType", "str", "unicode"}],
      [key |-> "private_key", types |-> {"NoneType", "str", "unicode"}],
      [key |-> "private_key_pass", types |-> {"NoneType", "str", "unicode"}],
      [key |-> "ignore", types |-> {"NoneType", "str", "unicode"}],
      [key |-> "path", types |-> {"str", "unicode"}],
      [key |-> "tls", types |-> {"bool"}],
      [key |-> "passive", types |-> {"bool"}],
      [key |-> "upload_on_save", types |-> {"bool"}],
      [key |-> "check_time", types |-> {"bool"}],
      [key |-> "download_on_open", types |-> {"bool"}],
      [key |-> "upload_delay", types |-> {"int", "long"}],
      [key |-> "after_save_watch", types |-> {"NoneType", "list"}],
      [key |-> "port", types |-> {"int", "long"}],
      [key |-> "timeout", types |-> {"int", "long"}],
      [key |-> "time_offset", types |-> {"int", "long"}]>>

\* Lines 325-373 from test i on: config[key] of an absent key raises KeyError.
RECURSIVE runTests(_, _)
runTests(config, i) ==
    IF i > Len(typeTests) THEN [kind |-> "valid", key |-> ""]
    ELSE LET t == typeTests[i]
         IN  IF t.key \notin DOMAIN config
             THEN [kind |-> "raise", key |-> t.key]
             ELSE IF config[t.key] \notin t.types
             THEN [kind |-> "invalid", key |-> t.key]
             ELSE runTests(config, i + 1)

\* verifyConfig (lines 315-373) of a dict: the first missing key of `keys` is
\* named (321-323), then the type tests run.
verifyConfig(config) ==
    LET missing == {i \in 1..Len(keys) : keys[i] \notin DOMAIN config}
    IN  IF missing # {}
        THEN [kind |-> "invalid",
              key |-> keys[CHOOSE i \in missing : \A j \in missing : i <= j]]
        ELSE runTests(config, 1)

\* Every key of the data model.
EntryKeys == {typeTests[i].key : i \in 1..Len(typeTests)}

\* Valid merged entries: optional values null or given, integers int or long.
ValidEntry(opt, num) ==
    [k \in EntryKeys |->
        CASE k \in {"username", "password", "private_key", "private_key_pass",
                    "ignore"} -> opt
          [] k = "path" -> "str"
          [] k \in {"tls", "passive", "upload_on_save", "check_time",
                    "download_on_open"} -> "bool"
          [] k = "after_save_watch" -> IF opt = "NoneType" THEN "NoneType" ELSE "list"
          [] OTHER -> num]

ValidEntries == {ValidEntry(opt, num) : opt \in {"NoneType", "unicode"}, num \in {"int", "long"}}

VerifyInit ==
    /\ entry \in ValidEntries
    /\ muts = MaxMuts
    /\ verified = Unset

\* No entry is verified in the other models.
VerifyQuiet ==
    /\ entry = ValidEntry("NoneType", "int")
    /\ muts = 0
    /\ verified = Unset

\* A key is missing from the file and from the defaults.
RemoveKey(k) ==
    /\ muts > 0
    /\ k \in DOMAIN entry
    /\ entry' = [x \in DOMAIN entry \ {k} |-> entry[x]]
    /\ muts' = muts - 1
    /\ verified' = Unset
    /\ UNCHANGED <<cfgVars, mainVars, xferVars, checkVars, tripVars, ctorVars, saveVars, watchVars, openVars>>

\* A key is given a value of another type.
Retype(k, t) ==
    /\ muts > 0
    /\ k \in DOMAIN entry
    /\ t # entry[k]
    /\ entry' = [entry EXCEPT ![k] = t]
    /\ muts' = muts - 1
    /\ verified' = Unset
    /\ UNCHANGED <<cfgVars, mainVars, xferVars, checkVars, tripVars, ctorVars, saveVars, watchVars, openVars>>

\* loadConfig verifies the merged entry (line 436).
Verify ==
    /\ verified = Unset
    /\ verified' = verifyConfig(entry)
    /\ UNCHANGED <<entry, muts>>
    /\ UNCHANGED <<cfgVars, mainVars, xferVars, checkVars, tripVars, ctorVars, saveVars, watchVars, openVars>>

VerifyNext ==
    \/ \E k \in EntryKeys : RemoveKey(k)
    \/ \E k \in EntryKeys, t \in Types : Retype(k, t)
    \/ Verify


(***************************************************************************)
(* PART IV.  SyncCommandDownload.execute (lines 874-946) and               *)
(* SyncCommandRename.execute (967-1038) on the pool the command holds.     *)
(***************************************************************************)

\* Bounds of the model.
MaxConns == 2
MaxXFails == 1
MaxKids == 2

ConnNames == <<"A", "B", "C", "D">>

\* The connections of the command's config, in iteration order.
XNames == SubSeq(ConnNames, 1, MaxConns)

Range(L) == {L[i] : i \in 1..Len(L)}

\* The pools getConnection can return for these connections: the handles of
\* the connections whose build succeeded, in declared order (at least one).
Pools(names) ==
    {SelectSeq(names, LAMBDA n : n \in S) : S \in (SUBSET Range(names)) \ {{}}}

\* The command after its constructor; selected: the connection the user
\* picked in the staleness prompt, if the download comes from there; entries:
\* for each file of the remote directory, whether entry.isNewerThan(local).
NewXfer(kind, isDir, pool) ==
    [kind |-> kind, isDir |-> isDir, names |-> XNames, pool |-> pool,
     pc |-> IF kind = "rename" THEN "check" ELSE "begin", i |-> 1,
     exists |-> <<>>, forced |-> FALSE, asked |-> FALSE, items |-> {},
     local |-> 0, requested |-> FALSE, selected |-> {}, entries |-> <<>>,
     kids |-> <<>>]

\* RemoteSyncDownCall.__init__ (lines 1335-1341): the whitelist argument is
\* not stored.
RemoteSyncDownCall(disregardIgnore, forced, whitelistConnections) ==
    [disregardIgnore |-> disregardIgnore, forced |-> forced,
     whitelistConnections |-> {}, arg |-> whitelistConnections]

\* The download threads started by FtpSyncDownCurrent (line 1468),
\* FtpSyncDownTarget without forced (1483) and sync of the staleness prompt (1151).
DownCalls ==
    {RemoteSyncDownCall(FALSE, TRUE, {}), RemoteSyncDownCall(FALSE, FALSE, {})}
        \cup {RemoteSyncDownCall(TRUE, FALSE, {n}) : n \in Range(XNames)}

\* The whitelist filter of SyncCommandTransfer.__init__ (lines 721-723).
Whitelisted(names, whitelistConnections) ==
    SelectSeq(names, LAMBDA n : ~(whitelistConnections # {} /\ n \notin whitelistConnections))

\* RemoteSyncDownCall.run (lines 1343-1356): the command is constructed with
\* the thread's whitelist and setForced is called when the thread is forced.
NewDownload(call, isDir, entries, pool) ==
    [NewXfer("download", isDir, pool) EXCEPT
        !.names = Whitelisted(XNames, call.whitelistConnections),
        !.forced = call.forced, !.requested = call.forced,
        !.selected = call.arg, !.entries = entries]

Entries == UNION {[1..n -> BOOLEAN] : n \in 0..MaxKids}

XferInit ==
    /\ \E pool \in Pools(XNames) :
          \/ xcmd = NewXfer("rename", FALSE, pool)
          \/ \E call \in DownCalls : xcmd = NewDownload(call, FALSE, <<>>, pool)
          \/ \E call \in DownCalls, entries \in Entries :
                xcmd = NewDownload(call, TRUE, entries, pool)
    /\ xhas \in SUBSET Range(XNames)
    /\ xfails \in 0..MaxXFails
    /\ xlog = <<>>

\* No such command runs in the other models.
XferQuiet ==
    /\ xcmd = [NewXfer("download", FALSE, XNames) EXCEPT !.pc = "done"]
    /\ xhas = {}
    /\ xfails = 0
    /\ xlog = <<>>

Call(op, name, handle, forced, outcome) ==
    [op |-> op, name |-> name, handle |-> handle, forced |-> forced,
     outcome |-> outcome]

\* How a remote call can end when the network works / when it may fail.
Failing == IF xfails > 0 THEN {"fail", "eof"} ELSE {}

\* The pre-check of the rename (lines 980-988), one connection per step; the
\* list call is outside any try, so an IndexError or a failure of list leaves
\* execute.  After the last connection: lines 1023-1038.
RenameCheck ==
    /\ xcmd.kind = "rename" /\ xcmd.pc = "check"
    /\ IF xcmd.i > Len(xcmd.names)
       THEN /\ xcmd' = IF Len(xcmd.exists) = 0
                       THEN [xcmd EXCEPT !.pc = "act", !.i = 1]
                       ELSE [xcmd EXCEPT !.pc = "ask", !.asked = TRUE,
                                         !.items = Range(xcmd.exists)]
            /\ UNCHANGED <<xlog, xfails>>
       ELSE IF xcmd.i > Len(xcmd.pool)
       THEN /\ xcmd' = [xcmd EXCEPT !.pc = "raised"]
            /\ UNCHANGED <<xlog, xfails>>
       ELSE LET name == xcmd.names[xcmd.i]
                h == xcmd.pool[xcmd.i]
            IN  \E outcome \in {IF h \in xhas THEN "found" ELSE "empty"} \cup Failing :
                  /\ xlog' = Append(xlog, Call("list", name, h, FALSE, outcome))
                  /\ xfails' = IF outcome \in Failing THEN xfails - 1 ELSE xfails
                  /\ xcmd' = IF outcome \in Failing
                             THEN [xcmd EXCEPT !.pc = "raised"]
                             ELSE [xcmd EXCEPT !.i = @ + 1,
                                     !.exists = IF outcome = "found"
                                                THEN Append(@, name) ELSE @]
    /\ UNCHANGED xhas
    /\ UNCHANGED <<cfgVars, mainVars, verifyVars, checkVars, tripVars, ctorVars, saveVars, watchVars, openVars>>

\* The user's answer in the quick panel (sync, lines 1026-1031).
RenameAsk(index) ==
    /\ xcmd.kind = "rename" /\ xcmd.pc = "ask"
    /\ xcmd' = IF index = 1
               THEN [xcmd EXCEPT !.pc = "act", !.i = 1, !.forced = TRUE]
               ELSE [xcmd EXCEPT !.pc = "kept"]
    /\ UNCHANGED <<xhas, xlog, xfails>>
    /\ UNCHANGED <<cfgVars, mainVars, verifyVars, checkVars, tripVars, ctorVars, saveVars, watchVars, openVars>>

\* The closure `action` of the rename (lines 990-1020), one connection per
\* step; after the last one the local file is renamed (line 1016).
RenameAct ==
    /\ xcmd.kind = "rename" /\ xcmd.pc = "act"
    /\ IF xcmd.i > Len(xcmd.names)
       THEN /\ xcmd' = [xcmd EXCEPT !.pc = "done", !.local = @ + 1]
            /\ UNCHANGED <<xlog, xfails>>
       ELSE IF xcmd.i > Len(xcmd.pool)
       THEN /\ xcmd' = [xcmd EXCEPT !.i = @ + 1]
            /\ UNCHANGED <<xlog, xfails>>
       ELSE LET name == xcmd.names[xcmd.i]
                h == xcmd.pool[xcmd.i]
                normal == IF ~xcmd.forced /\ h \in xhas THEN "exists" ELSE "ok"
            IN  \E outcome \in {normal} \cup Failing :
                  /\ xlog' = Append(xlog, Call("rename", name, h, xcmd.forced, outcome))
                  /\ xfails' = IF outcome \in Failing THEN xfails - 1 ELSE xfails
                  /\ xcmd' = [xcmd EXCEPT !.i = @ + 1,
                                !.pool = IF outcome = "eof"
                                         THEN CloseEach(@, 1).rest ELSE @]
    /\ UNCHANGED xhas
    /\ UNCHANGED <<cfgVars, mainVars, verifyVars, checkVars, tripVars, ctorVars, saveVars, watchVars, openVars>>

\* The head of SyncCommandDownload.execute (lines 874-888).
DownloadBegin ==
    /\ xcmd.kind = "download" /\ xcmd.pc = "begin"
    /\ xcmd' = [xcmd EXCEPT !.forced = TRUE, !.pc = "loop"]
    /\ UNCHANGED <<xhas, xlog, xfails>>
    /\ UNCHANGED <<cfgVars, mainVars, verifyVars, checkVars, tripVars, ctorVars, saveVars, watchVars, openVars>>

\* The child command of lines 910-921 for a file entry, constructed without
\* a whitelist on the same pool, and its execute: what it was marked and the
\* connections it called get on.
childDownload(parentForced, newer, pool) ==
    LET forced == parentForced
        skip == ~parentForced /\ newer
        forcedInExecute == TRUE
    IN  [newer |-> newer, setForced |-> forced, skip |-> skip,
         gets |-> IF ~skip \/ forcedInExecute THEN Range(pool) ELSE {}]

\* One pass of the loop of the download (lines 892-943); a directory that
\* was listed is handed to child commands and execute returns (line 923).
DownloadStep ==
    /\ xcmd.kind = "download" /\ xcmd.pc = "loop"
    /\ IF xcmd.i > Len(xcmd.names)
       THEN /\ xcmd' = [xcmd EXCEPT !.pc = "done"]
            /\ UNCHANGED <<xlog, xfails>>
       ELSE IF xcmd.i > Len(xcmd.pool)
       THEN /\ xcmd' = [xcmd EXCEPT !.i = @ + 1]
            /\ UNCHANGED <<xlog, xfails>>
       ELSE LET name == xcmd.names[xcmd.i]
                h == xcmd.pool[xcmd.i]
                op == IF xcmd.isDir THEN "list" ELSE "get"
            IN  \E outcome \in {"ok"} \cup Failing :
                  /\ xlog' = Append(xlog, Call(op, name, h, TRUE, outcome))
                  /\ xfails' = IF outcome \in Failing THEN xfails - 1 ELSE xfails
                  /\ xcmd' = IF xcmd.isDir /\ outcome = "ok"
                             THEN [xcmd EXCEPT !.pc = "done",
                                     !.kids = [k \in 1..Len(xcmd.entries) |->
                                                childDownload(xcmd.forced,
                                                    xcmd.entries[k], xcmd.pool)]]
                             ELSE [xcmd EXCEPT !.i = @ + 1,
                                     !.pool = IF outcome = "eof"
                                              THEN CloseEach(@, 1).rest ELSE @]
    /\ UNCHANGED xhas
    /\ UNCHANGED <<cfgVars, mainVars, verifyVars, checkVars, tripVars, ctorVars, saveVars, watchVars, openVars>>

XferNext ==
    \/ RenameCheck
    \/ \E index \in {-1, 0, 1} : RenameAsk(index)
    \/ RenameAct
    \/ DownloadBegin
    \/ DownloadStep


(***************************************************************************)
(* PART V.  performRemoteCheck (lines 1083-1180) from the metadata on.     *)
(***************************************************************************)

\* Bounds of the model.
MaxEntries == 2
MaxTime == 2
MaxSize == 1

Stat == [mtime : 0..MaxTime, size : 0..MaxSize]

\* Metadata.isNewerThan(file_path): the remote copy was modified later.
isNewerThan(m, local) == m.mtime > local.mtime

\* Metadata.isDifferentSizeThan(file_path)
isDifferentSizeThan(m, local) == m.size # local.size

\* The results of GetMetadata: one entry per answering connection.
Metadatas ==
    UNION {[1..n -> Stat] : n \in 0..MaxEntries}

entryOf(meta, i) == [connection |-> ConnNames[i], metadata |-> meta[i]]

\* The loop body with the size test made for every entry.
classifyEntryAlwaysSize(acc, e, local) ==
    IF isNewerThan(e.metadata, local)
    THEN [newest |-> Append(acc.newest, e), oldest |-> acc.oldest,
          every |-> IF isDifferentSizeThan(e.metadata, local)
                    THEN Append(Append(acc.every, e), e)
                    ELSE Append(acc.every, e)]
    ELSE [newest |-> acc.newest, oldest |-> Append(acc.oldest, e),
          every |-> IF isDifferentSizeThan(e.metadata, local)
                    THEN Append(acc.every, e) ELSE acc.every]

\* The body of the loop of lines 1126-1134 for one entry.
classifyEntry(acc, e, local) ==
    IF isNewerThan(e.metadata, local)
    THEN [newest |-> Append(acc.newest, e), oldest |-> acc.oldest,
          every |-> Append(acc.every, e)]
    ELSE [newest |-> acc.newest, oldest |-> Append(acc.oldest, e),
          every |-> IF isDifferentSizeThan(e.metadata, local)
                    THEN Append(acc.every, e) ELSE acc.every]

\* The loop of lines 1122-1134 from entry i on.
RECURSIVE classify(_, _, _, _)
classify(meta, local, i, acc) ==
    IF i > Len(meta) THEN acc
    ELSE classify(meta, local, i + 1, classifyEntry(acc, entryOf(meta, i), local))

Reverse(L) == [i \in 1..Len(L) |-> L[Len(L) + 1 - i]]

\* performRemoteCheck from line 1116 on: the message printed, whether the quick
\* panel is shown, its remote items (line 1137-1139: all of metadata, reversed)
\* and the lists built by the loop.
performRemoteCheck(meta, local) ==
    LET all == [i \in 1..Len(meta) |-> entryOf(meta, i)]
        c == classify(meta, local, 1, [newest |-> <<>>, oldest |-> <<>>, every |-> <<>>])
    IN  IF Len(meta) = 0
        THEN [kind |-> "checked", message |-> "none found", prompted |-> FALSE,
              items |-> <<>>, newest |-> <<>>, every |-> <<>>,
              index |-> 0, call |-> Unset]
        ELSE IF Len(c.every) > 0
        THEN [kind |-> "checked", message |-> "", prompted |-> TRUE,
              items |-> Reverse(all), newest |-> c.newest, every |-> c.every,
              index |-> 0, call |-> Unset]
        ELSE [kind |-> "checked", message |-> "same size and older",
              prompted |-> FALSE, items |-> <<>>, newest |-> c.newest,
              every |-> c.every, index |-> 0, call |-> Unset]

\* The callback sync of the quick panel (lines 1141-1151): the download thread
\* it starts for the answer `index` (0: keep current, -1: dismissed).
sync(out, index) ==
    IF index > 0
    THEN RemoteSyncDownCall(TRUE, FALSE, {out.items[index].connection})
    ELSE Unset

\* The check before it runs: forced as given by the caller (line 1288: not
\* forced, line 1477: forced), doo: download_on_open of each connection.
NewQuery(forced, doo) ==
    [forced |-> forced, doo |-> doo, pc |-> "new", checking |-> <<>>,
     names |-> <<>>, queried |-> <<>>, outcome |-> "none"]

\* SyncCommand.whitelistConnections (lines 672-681)
whitelistConnections(names, whitelist) ==
    SelectSeq(names, LAMBDA n : n \in Range(whitelist))

\* The loop of SyncCommandGetMetadata.execute (lines 1056-1078) on a pool
\* with one handle per declared connection: the list calls, each with the
\* name it is made for and the handle connections[index] it is made on.
listCalls(names) ==
    [i \in 1..Len(names) |-> [name |-> names[i], handle |-> XNames[i]]]

\* performRemoteCheck, lines 1098-1117.
queryMetadata(q) ==
    LET checking == IF q.forced THEN <<>>
                    ELSE SelectSeq(XNames, LAMBDA n : q.doo[n])
        names == whitelistConnections(XNames, checking)
    IN  IF ~q.forced /\ Len(checking) = 0
        THEN [q EXCEPT !.pc = "done", !.outcome = "returned"]
        ELSE IF Len(names) = 0
        THEN [q EXCEPT !.pc = "done", !.checking = checking, !.names = names,
                       !.outcome = "invalid metadata response"]
        ELSE [q EXCEPT !.pc = "done", !.checking = checking, !.names = names,
                       !.queried = listCalls(names), !.outcome = "metadata"]

\* No query is followed.
QueryQuiet ==
    chkQuery = [NewQuery(FALSE, [n \in Range(XNames) |-> FALSE]) EXCEPT !.pc = "done"]

\* A check is followed either from the metadata on, for every local file and
\* every metadata list, or up to the metadata, for every caller and config.
CheckInit ==
    /\ chkOut = Unset
    /\ \/ /\ chkLocal \in Stat
          /\ chkMeta \in Metadatas
          /\ QueryQuiet
       \/ /\ chkLocal = [mtime |-> 0, size |-> 0]
          /\ chkMeta = <<>>
          /\ \E forced \in BOOLEAN, doo \in [Range(XNames) -> BOOLEAN] :
                chkQuery = NewQuery(forced, doo)

\* No check runs in the other models.
CheckQuiet ==
    /\ chkLocal = [mtime |-> 0, size |-> 0]
    /\ chkMeta = <<>>
    /\ chkOut = Unset
    /\ QueryQuiet

\* RemoteSyncCheck.run
Check ==
    /\ chkOut = Unset
    /\ chkOut' = performRemoteCheck(chkMeta, chkLocal)
    /\ UNCHANGED <<chkLocal, chkMeta, chkQuery>>
    /\ UNCHANGED <<cfgVars, mainVars, verifyVars, xferVars, tripVars, ctorVars, saveVars, watchVars, openVars>>


(***************************************************************************)
(* PART VI.  SyncCommandUpload.execute (lines 749-842) followed by a       *)
(* forced SyncCommandDownload.execute (874-946) of the same file.          *)
(***************************************************************************)

\* Bound of the model: file contents are 1..MaxContent, 0 is "no such file".
MaxContent == 2

\* The configs: every connection uploads on save or not, and ignores the
\* file or not; no upload delay.
TripProps ==
    [Range(XNames) -> {Conn(uos, 0, ign, 0) : uos \in BOOLEAN,
                                              ign \in {"none", TrackedFile}}]

\* The arguments of the constructor that the filter reads.
TripCmd(kind, onSave) ==
    [kind |-> kind, onSave |-> onSave, disregardIgnore |-> FALSE,
     whitelist |-> {}, file |-> TrackedFile]

\* The upload command after its constructor, with the pool of all declared
\* connections built and open.
TripInit ==
    \E props \in TripProps, onSave \in BOOLEAN, local \in 1..MaxContent,
       copies \in [Range(XNames) -> 0..MaxContent] :
        trip = [props |-> props, onSave |-> onSave, local |-> local,
                remote |-> copies, sent |-> local, pc |-> "upload", i |-> 1,
                names |-> FilterOrder(TripCmd("upload", onSave), XNames, props),
                puts |-> {}, gets |-> {}]

\* No such pair of commands runs in the other models.
TripQuiet ==
    trip = [props |-> [n \in Range(XNames) |-> Conn(TRUE, 0, "none", 0)],
            onSave |-> FALSE, local |-> 1,
            remote |-> [n \in Range(XNames) |-> 0], sent |-> 1, pc |-> "done",
            i |-> 1, names |-> <<>>, puts |-> {}, gets |-> {}]

\* One pass of the upload's loop (lines 778-828, no delay): the put goes to
\* connections[index], the handle of the index-th declared connection.  After
\* the last pass, FtpSyncDownCurrent (lines 1463-1468) constructs the download.
TripUpload ==
    /\ trip.pc = "upload"
    /\ trip' =
         IF trip.i > Len(trip.names)
         THEN [trip EXCEPT !.pc = "download", !.i = 1,
                 !.names = FilterOrder(TripCmd("download", FALSE), XNames, trip.props)]
         ELSE LET h == XNames[trip.i]
              IN  [trip EXCEPT !.remote[h] = trip.local, !.puts = @ \cup {h},
                               !.i = @ + 1]
    /\ UNCHANGED <<cfgVars, mainVars, verifyVars, xferVars, checkVars, ctorVars, saveVars, watchVars, openVars>>

\* One pass of the download's loop (lines 892-943) for a file: get from
\* connections[index] replaces the local file; a get of a missing remote file
\* fails and is reported (line 941).
TripDownload ==
    /\ trip.pc = "download"
    /\ trip' =
         IF trip.i > Len(trip.names)
         THEN [trip EXCEPT !.pc = "done"]
         ELSE LET h == XNames[trip.i]
              IN  IF trip.remote[h] = 0
                  THEN [trip EXCEPT !.i = @ + 1]
                  ELSE [trip EXCEPT !.local = trip.remote[h], !.gets = @ \cup {h},
                                    !.i = @ + 1]
    /\ UNCHANGED <<cfgVars, mainVars, verifyVars, xferVars, checkVars, ctorVars, saveVars, watchVars, openVars>>

TripNext ==
    \/ TripUpload
    \/ TripDownload


(***************************************************************************)
(* PART VII.  The constructors (lines 640-654, 691-726, 732-736, 852-857,  *)
(* 952-965) and the head of execute of the four commands.                  *)
(***************************************************************************)

Kinds == {"upload", "download", "rename", "meta"}

\* The config_file_path argument: its type and, for a string, the file it names.
PathTypes == {"NoneType", "list", "str", "unicode"}
FileStates == {"good", "missing", "broken"}

\* The new_name argument of the rename.
NewNames == {"NoneType", "empty", "name"}

\* loadConfig (lines 406-444): None for a missing file or one that does not parse.
loadsConfig(file) == file = "good"

\* A command object before its constructor ran; pooled: connections holds a
\* pool for the hash of the config path.
NewCtor(kind, ptype, file, ignored, new_name, pooled) ==
    [kind |-> kind, ptype |-> ptype, file |-> file, ignored |-> ignored,
     new_name |-> new_name, pooled |-> pooled, pc |-> "new", closed |-> FALSE,
     hasConfig |-> FALSE, config |-> FALSE, raised |-> "none",
     diag |-> "none", remote |-> FALSE, inUse |-> FALSE]

\* SyncCommand.__init__ (lines 640-654) with getConnection (459-466, 488-495)
\* for a config of None: config['connections'] raises TypeError, after the
\* miss branch has stored an empty pool.
SyncCommandInit(c) ==
    IF ~isString(c.ptype)
    THEN [c EXCEPT !.closed = TRUE]
    ELSE IF loadsConfig(c.file)
    THEN [c EXCEPT !.hasConfig = TRUE, !.config = TRUE, !.pooled = TRUE]
    ELSE [c EXCEPT !.hasConfig = TRUE, !.config = FALSE, !.pooled = TRUE,
                   !.raised = "TypeError"]

\* SyncCommandTransfer.__init__ (lines 691-726): after SyncCommand.__init__
\* returns, line 707 reads self.config.
SyncCommandTransferInit(c) ==
    IF c.ignored
    THEN [c EXCEPT !.closed = TRUE]
    ELSE LET b == SyncCommandInit(c)
         IN  IF b.raised # "none" THEN b
             ELSE IF ~b.hasConfig THEN [b EXCEPT !.raised = "AttributeError"]
             ELSE b

\* SyncCommandRename.__init__ (lines 952-965)
SyncCommandRenameInit(c) ==
    IF c.new_name # "name" THEN [c EXCEPT !.closed = TRUE]
    ELSE SyncCommandInit(c)

CtorInit ==
    \E kind \in Kinds, ptype \in PathTypes, file \in FileStates,
       ignored \in BOOLEAN, new_name \in NewNames, pooled \in BOOLEAN :
        ctor = NewCtor(kind, ptype, file, ignored, new_name, pooled)

\* No such command runs in the other models.
CtorQuiet ==
    ctor = [NewCtor("meta", "str", "good", FALSE, "name", FALSE) EXCEPT !.pc = "executed"]

\* The constructor call of RemoteSyncCall.run, RemoteSyncDownCall.run,
\* RemoteSyncRename.run or performRemoteCheck.
CtorConstruct ==
    /\ ctor.pc = "new"
    /\ LET b == IF ctor.kind \in {"upload", "download"}
                THEN SyncCommandTransferInit(ctor)
                ELSE IF ctor.kind = "rename" THEN SyncCommandRenameInit(ctor)
                ELSE SyncCommandInit(ctor)
       IN  ctor' = [b EXCEPT !.pc = IF b.raised = "none" THEN "constructed"
                                     ELSE "raised"]
    /\ UNCHANGED <<cfgVars, mainVars, verifyVars, xferVars, checkVars, tripVars, saveVars, watchVars, openVars>>

\* execute (lines 749-760, 874-888, 967-974, 1044-1051) up to the in-use mark
\* and the first remote call.
CtorExecute ==
    /\ ctor.pc = "constructed"
    /\ ctor' = IF ctor.closed
               THEN [ctor EXCEPT !.pc = "executed", !.diag = "command is closed"]
               ELSE [ctor EXCEPT !.pc = "executed", !.inUse = TRUE, !.remote = TRUE]
    /\ UNCHANGED <<cfgVars, mainVars, verifyVars, xferVars, checkVars, tripVars, saveVars, watchVars, openVars>>

CtorNext ==
    \/ CtorConstruct
    \/ CtorExecute

\* The user answers the quick panel shown at line 1178.
Answer(index) ==
    /\ chkOut # Unset
    /\ chkOut.prompted /\ chkOut.index = 0 /\ index # 0
    /\ index <= Len(chkOut.items)
    /\ chkOut' = [chkOut EXCEPT !.index = index, !.call = sync(chkOut, index)]
    /\ UNCHANGED <<chkLocal, chkMeta, chkQuery>>
    /\ UNCHANGED <<cfgVars, mainVars, verifyVars, xferVars, tripVars, ctorVars, saveVars, watchVars, openVars>>

\* RemoteSyncCheck.run up to the metadata: which connections are asked.
Query ==
    /\ chkQuery.pc = "new"
    /\ chkQuery' = queryMetadata(chkQuery)
    /\ UNCHANGED <<chkLocal, chkMeta, chkOut>>
    /\ UNCHANGED <<cfgVars, mainVars, verifyVars, xferVars, tripVars, ctorVars, saveVars, watchVars, openVars>>

CheckNext ==
    \/ Query
    \/ Check
    \/ \E index \in -1..MaxEntries : Answer(index)


(***************************************************************************)
(* PART VIII.  RemoteSync.on_pre_save (lines 1195-1253) and on_post_save   *)
(* (1255-1262) for the saves of one file.                                  *)
(***************************************************************************)

\* Bound of the model.
MaxSaves == 2

\* The configs: upload_on_save and check_time of every connection.
SaveProps == [Range(XNames) -> [uos : BOOLEAN, check_time : BOOLEAN]]

\* on_post_save that leaves the prevent-list as it is.
on_post_saveNoRemove(prevent) ==
    IF \E i \in 1..Len(prevent) : prevent[i] = TrackedFile
    THEN [prevent |-> prevent, upload |-> FALSE]
    ELSE [prevent |-> prevent, upload |-> TRUE]

\* on_post_save (lines 1255-1262): the prevent-list after it and whether it
\* started the upload thread.
on_post_save(prevent) ==
    IF \E i \in 1..Len(prevent) : prevent[i] = TrackedFile
    THEN [prevent |-> ListRemove(prevent, TrackedFile), upload |-> FALSE]
    ELSE [prevent |-> prevent, upload |-> TRUE]

\* on_pre_save (lines 1200-1253) with metadata entries that are newer than the
\* local file for the connections in `remoteNewer`: the connections it
\* reports as newer.
on_pre_save(props, remoteNewer) ==
    LET blacklistConnections == SelectSeq(XNames, LAMBDA n : ~props[n].uos)
    IN  IF Len(blacklistConnections) = Len(XNames) THEN <<>>
        ELSE SelectSeq(XNames, LAMBDA n : /\ n \notin Range(blacklistConnections)
                                          /\ props[n].check_time
                                          /\ n \in remoteNewer)

\* One save before its handlers ran.
NewSave(remoteNewer) ==
    [remoteNewer |-> remoteNewer, newer |-> <<>>, prompt |-> "none",
     consumed |-> FALSE, uploads |-> 0]

SaveInit ==
    \E props \in SaveProps :
        saving = [props |-> props, preventUpload |-> <<>>, pc |-> "idle",
                  saves |-> <<>>]

\* No save is followed in the other models.
SaveQuiet ==
    saving = [props |-> [n \in Range(XNames) |-> [uos |-> FALSE, check_time |-> FALSE]],
              preventUpload |-> <<>>, pc |-> "idle",
              saves |-> [i \in 1..MaxSaves |-> NewSave({})]]

\* The user saves the file: on_pre_save runs.
PreSave(remoteNewer) ==
    /\ saving.pc = "idle" /\ Len(saving.saves) < MaxSaves
    /\ LET newer == on_pre_save(saving.props, remoteNewer)
           save == [NewSave(remoteNewer) EXCEPT
                      !.newer = newer,
                      !.prompt = IF Len(newer) > 0 THEN "shown" ELSE "none"]
       IN  saving' = [saving EXCEPT
                        !.pc = "written",
                        !.saves = Append(@, save),
                        !.preventUpload = IF Len(newer) > 0
                                          THEN Append(@, TrackedFile) ELSE @]
    /\ UNCHANGED <<cfgVars, mainVars, verifyVars, xferVars, checkVars, tripVars, ctorVars, watchVars, openVars>>

\* The file is written: on_post_save runs.
PostSave ==
    /\ saving.pc = "written"
    /\ LET k == Len(saving.saves)
           r == on_post_save(saving.preventUpload)
       IN  saving' = [saving EXCEPT
                        !.pc = "idle",
                        !.preventUpload = r.prevent,
                        !.saves[k].consumed = ~r.upload,
                        !.saves[k].uploads = IF r.upload THEN @ + 1 ELSE @]
    /\ UNCHANGED <<cfgVars, mainVars, verifyVars, xferVars, checkVars, tripVars, ctorVars, watchVars, openVars>>

\* The user answers the quick panel of save k (sync, lines 1237-1242).
SaveAnswer(k, index) ==
    /\ saving.pc = "idle"
    /\ k \in 1..Len(saving.saves)
    /\ saving.saves[k].prompt = "shown"
    /\ LET r == IF index = 1 THEN on_post_save(saving.preventUpload)
                ELSE [prevent |-> saving.preventUpload, upload |-> FALSE]
       IN  saving' = [saving EXCEPT
                        !.preventUpload = r.prevent,
                        !.saves[k].prompt = IF index = 1 THEN "overwrite" ELSE "cancel",
                        !.saves[k].uploads = IF r.upload THEN @ + 1 ELSE @]
    /\ UNCHANGED <<cfgVars, mainVars, verifyVars, xferVars, checkVars, tripVars, ctorVars, watchVars, openVars>>

SaveNext ==
    \/ \E remoteNewer \in SUBSET Range(XNames) : PreSave(remoteNewer)
    \/ PostSave
    \/ \E k \in 1..MaxSaves, index \in {-1, 0, 1} : SaveAnswer(k, index)

(***************************************************************************)
(* PART IX.  The watch cascade of an on-save upload: scanWatched (lines    *)
(* 739-746) and SyncCommandUpload.execute (749-842) on a full, aligned     *)
(* pool, with watched files that change while the upload is delayed.       *)
(***************************************************************************)

\* Bounds of the model: watched files, and changes made to them.
MaxWatched == 2
MaxTouches == 2

\* The connections of the config, in iteration order.
WatchNames == <<"A", "B">>

\* The files the watch patterns match; a file's metadata is its version, 0
\* when the file does not exist.
WFiles == 1..MaxWatched
NoFiles == [f \in WFiles |-> 0]

\* The properties of a connection that the cascade reads; after_save_watch:
\* the entry is a non-empty list.
WatchProps ==
    [Range(WatchNames) -> [upload_on_save : BOOLEAN, upload_delay : {0, 1},
                           after_save_watch : BOOLEAN]]

\* The on-save filter of SyncCommandTransfer.__init__ (lines 709-712).
onSaveFilter(order, props) == SelectSeq(order, LAMBDA n : props[n].upload_on_save)

\* scanWatched: the snapshot stored in afterwatch[event][name].
scanWatched(properties, files) ==
    IF properties.after_save_watch /\ properties.upload_delay > 0
    THEN files ELSE NoFiles

\* getChangedFiles: the files of the later snapshot that are new or whose
\* metadata differs from the earlier snapshot.
getChangedFiles(before, after) ==
    {f \in WFiles : after[f] # 0 /\ after[f] # before[f]}

\* The same command constructed as an on-save upload.
cascadeUploadOnSave(change, name, w) ==
    [file |-> change, whitelist |-> name, onSave |-> TRUE, disregardIgnore |-> TRUE,
     handle |-> w.pool[1], scans |-> TRUE,
     delayed |-> w.props[name].upload_delay > 0]

\* Line 810: SyncCommandUpload(change, getConfigFile(change), None, False,
\* True, [name]).execute().  The whitelist leaves `name` alone in the
\* command's connections, execute takes the handle at index 0 of the pool,
\* scans only when onSave is set (761) and delays only when onSave is set and
\* the connection has a delay (823); a command that is not delayed starts no
\* cascade (802).
cascadeUpload(change, name, w) ==
    [file |-> change, whitelist |-> name, onSave |-> FALSE, disregardIgnore |-> TRUE,
     handle |-> w.pool[1], scans |-> FALSE,
     delayed |-> FALSE /\ w.props[name].upload_delay > 0]

\* The closure `action` (lines 788-819) as it runs with the variables name,
\* connection and id of execute at the moment of the call, on the watched
\* files as they are then.
watchAction(w, files) ==
    IF w.sched = <<>>
    THEN [w EXCEPT !.errors = @ + 1]
    ELSE IF w.sched # w.cid
    THEN w
    ELSE LET w1 == [w EXCEPT !.sched = <<>>,
                             !.puts = Append(@, [name |-> w.cname, handle |-> w.chandle,
                                                 delayed |-> w.delayed])]
             after == scanWatched(w.props[w.cname], files)
             changed == getChangedFiles(w.before[w.cname], after)
         IN  IF ~w.delayed THEN w1
             ELSE [w1 EXCEPT
                     !.delayed = FALSE,
                     !.cascades = Append(@,
                         [name |-> w.cname, before |-> w.before[w.cname],
                          disk |-> files, touched |-> w.touches,
                          ups |-> {cascadeUpload(f, w.cname, w) : f \in changed}])]

\* The on-save upload after its constructor; the pool holds a handle for
\* every connection of the config file, named after it.
NewWatch(props, files) ==
    [pc |-> "scan", props |-> props, order |-> onSaveFilter(WatchNames, props),
     pool |-> WatchNames, i |-> 1, delayed |-> FALSE,
     before |-> [n \in Range(WatchNames) |-> NoFiles],
     cname |-> "", chandle |-> "", cid |-> <<>>, sched |-> <<>>,
     pending |-> 0, errors |-> 0, puts |-> <<>>, cascades |-> <<>>,
     files |-> files, touches |-> 0]

WatchInit ==
    \E props \in WatchProps, files \in [WFiles -> {0, 1}] :
        watch = NewWatch(props, files)

\* No such upload runs in the other models.
WatchQuiet ==
    watch = [NewWatch([n \in Range(WatchNames) |->
                         [upload_on_save |-> FALSE, upload_delay |-> 0,
                          after_save_watch |-> FALSE]], NoFiles)
                EXCEPT !.pc = "done"]

\* The head of execute (lines 749-769): the guard and the snapshot before.
WatchScan ==
    /\ watch.pc = "scan"
    /\ watch' = IF Len(watch.order) = 0
                THEN [watch EXCEPT !.pc = "done"]
                ELSE [watch EXCEPT
                        !.pc = "loop",
                        !.before = [n \in Range(WatchNames) |->
                                      IF n \in Range(watch.order)
                                      THEN scanWatched(watch.props[n], watch.files)
                                      ELSE NoFiles]]
    /\ UNCHANGED <<cfgVars, mainVars, verifyVars, xferVars, checkVars, tripVars, ctorVars, saveVars, openVars>>

\* One pass of the loop of execute (lines 778-829).
WatchStep ==
    /\ watch.pc = "loop"
    /\ LET name == watch.order[watch.i]
           id == <<watch.i>>
           w == [watch EXCEPT !.cname = name, !.chandle = watch.pool[watch.i],
                              !.cid = id, !.sched = id,
                              !.i = @ + 1,
                              !.pc = IF watch.i >= Len(watch.order) THEN "done" ELSE "loop"]
       IN  watch' = IF watch.props[name].upload_delay > 0
                    THEN [w EXCEPT !.delayed = TRUE, !.pending = @ + 1]
                    ELSE watchAction(w, watch.files)
    /\ UNCHANGED <<cfgVars, mainVars, verifyVars, xferVars, checkVars, tripVars, ctorVars, saveVars, openVars>>

\* A callback scheduled at line 826 runs.
WatchFire ==
    /\ watch.pending > 0
    /\ watch' = [watchAction(watch, watch.files) EXCEPT !.pending = @ - 1]
    /\ UNCHANGED <<cfgVars, mainVars, verifyVars, xferVars, checkVars, tripVars, ctorVars, saveVars, openVars>>

\* A watched file is created or changed (by a build step, or by what a
\* secondary upload sets off).
WatchTouch(f) ==
    /\ watch.pc # "scan"
    /\ watch.touches < MaxTouches
    /\ watch' = [watch EXCEPT !.files[f] = @ + 1, !.touches = @ + 1]
    /\ UNCHANGED <<cfgVars, mainVars, verifyVars, xferVars, checkVars, tripVars, ctorVars, saveVars, openVars>>

WatchNext ==
    \/ WatchScan
    \/ WatchStep
    \/ WatchFire
    \/ \E f \in WFiles : WatchTouch(f)

(***************************************************************************)
(* PART X.  The check scheduled when a file is opened: RemoteSync.on_load  *)
(* (lines 1277-1290) and the part of on_close (1264-1273) that cancels it. *)
(* What on_close does to the pool is CloseFile of PART II.                 *)
(***************************************************************************)

\* Bound of the model: views opened in all.
MaxOpens == 3

\* The files that are opened.
Paths == {"f", "g"}

\* Python values: a file path and a view object.
PathValue(p) == [type |-> "unicode", value |-> p]
ViewValue(v) == [type |-> "View", value |-> v]

\* x in list: some element equals x.
PyIn(x, L) == \E i \in 1..Len(L) : L[i] = x

\* on_close, lines 1269-1270, without the removal.
on_closeNoRemove(file_path, scheduled) == scheduled

\* on_close, lines 1269-1270: checksScheduled afterwards.
on_close(file_path, scheduled) ==
    IF PyIn(PathValue(file_path), scheduled)
    THEN ListRemove(scheduled, PathValue(file_path))
    ELSE scheduled

\* on_load, lines 1283-1290: checksScheduled afterwards and whether a timer
\* was set.
on_load(view, file_path, scheduled) ==
    IF ~PyIn(ViewValue(view), scheduled)
    THEN [scheduled |-> Append(scheduled, PathValue(file_path)), timer |-> TRUE]
    ELSE [scheduled |-> scheduled, timer |-> FALSE]

\* check (lines 1286-1288): whether RemoteSyncCheck is started.
check(file_path, scheduled) == PyIn(PathValue(file_path), scheduled)

\* Some view of the path is open.
IsOpen(o, p) == \E v \in 1..Len(o.views) : o.views[v].path = p /\ o.views[v].open

\* Plugin load (line 1186), no file open; ignored: the paths the global
\* ignore setting matches.
OpenInit ==
    \E ignored \in SUBSET Paths :
        opening = [ignored |-> ignored, views |-> <<>>, checksScheduled |-> <<>>,
                   timers |-> <<>>, fires |-> <<>>]

\* No file is opened in the other models.
OpenQuiet ==
    opening = [ignored |-> {}, views |-> <<>>, checksScheduled |-> <<>>,
               timers |-> <<>>, fires |-> <<>>]

\* A file is opened in a new view and on_load runs.
OnLoad(p) ==
    /\ Len(opening.views) < MaxOpens
    /\ LET view == Len(opening.views) + 1
           r == on_load(view, p, opening.checksScheduled)
           o == [opening EXCEPT !.views = Append(@, [path |-> p, open |-> TRUE])]
       IN  opening' = IF p \in opening.ignored THEN o
                      ELSE [o EXCEPT !.checksScheduled = r.scheduled,
                                     !.timers = IF r.timer
                                                THEN Append(@, [path |-> p, view |-> view])
                                                ELSE @]
    /\ UNCHANGED <<cfgVars, mainVars, verifyVars, xferVars, checkVars, tripVars, ctorVars, saveVars, watchVars>>

\* A view is closed and on_close runs.
OnClose(v) ==
    /\ v \in 1..Len(opening.views)
    /\ opening.views[v].open
    /\ opening' = [opening EXCEPT
                     !.views[v].open = FALSE,
                     !.checksScheduled = on_close(opening.views[v].path, @)]
    /\ UNCHANGED <<cfgVars, mainVars, verifyVars, xferVars, checkVars, tripVars, ctorVars, saveVars, watchVars>>

\* The oldest timer (all have the delay download_on_open_delay) fires.
OpenFire ==
    /\ Len(opening.timers) > 0
    /\ LET t == Head(opening.timers)
       IN  opening' = [opening EXCEPT
                         !.timers = Tail(@),
                         !.fires = Append(@,
                             [path |-> t.path, view |-> t.view,
                              ran |-> check(t.path, opening.checksScheduled),
                              open |-> IsOpen(opening, t.path)])]
    /\ UNCHANGED <<cfgVars, mainVars, verifyVars, xferVars, checkVars, tripVars, ctorVars, saveVars, watchVars>>

OpenNext ==
    \/ \E p \in Paths : OnLoad(p)
    \/ \E v \in 1..MaxOpens : OnClose(v)
    \/ OpenFire

UnitQuiet ==
    VerifyQuiet /\ XferQuiet /\ CheckQuiet /\ TripQuiet /\ CtorQuiet /\ SaveQuiet /\ WatchQuiet /\ OpenQuiet

\* The resolver is not exercised in the command model.
CfgQuiet ==
    /\ configs = << >>
    /\ fsConfig = {}
    /\ lastQuery = [path |-> None, result |-> None, hit |-> FALSE, prev |-> <<"unset">>]
    /\ answered = [p \in Files |-> <<"unset">>]
    /\ lastNew = [dir |-> None, raised |-> FALSE]
    /\ layoutChanged = FALSE

\* Saves and explicit uploads on a network that does not fail.
Init == MainInit(Scenarios, 0, 0) /\ CfgQuiet /\ UnitQuiet

Next ==
    \/ Save
    \/ UploadCurrent
    \/ \E c \in 1..Len(cmds) : Construct(c)
    \/ \E c \in 1..Len(cmds) : BuildOne(c)
    \/ \E c \in 1..Len(cmds) : Execute(c)
    \/ \E c \in 1..Len(cmds) : Step(c)
    \/ \E k \in 1..Len(timers) : FireUpload(k)
    \/ \E k \in 1..Len(timers) : FireIdle(k)

Spec == Init /\ [][Next]_vars

\* The same for two connections with every combination of upload delays.
InitDelay == MainInit(DelayScenarios, 0, 0) /\ CfgQuiet /\ UnitQuiet

SpecDelay == InitDelay /\ [][Next]_vars

\* Explicit uploads over two connections on a failing network.
InitBuild == MainInit({CfgDelays(0, 0)}, MaxFails, 0) /\ CfgQuiet /\ UnitQuiet

NextBuild ==
    \/ UploadCurrent
    \/ \E c \in 1..Len(cmds) : Construct(c)
    \/ \E c \in 1..Len(cmds) : BuildOne(c)
    \/ \E c \in 1..Len(cmds) : Execute(c)
    \/ \E c \in 1..Len(cmds) : Step(c)
    \/ \E k \in 1..Len(timers) : FireIdle(k)

SpecBuild == InitBuild /\ [][NextBuild]_vars

\* The same with the config file edited between commands.
InitEdit == MainInit({CfgDelayed}, 0, MaxEdits) /\ CfgQuiet /\ UnitQuiet

NextEdit ==
    \/ Save
    \/ UploadCurrent
    \/ EditConfig
    \/ \E c \in 1..Len(cmds) : Construct(c)
    \/ \E c \in 1..Len(cmds) : BuildOne(c)
    \/ \E c \in 1..Len(cmds) : Execute(c)
    \/ \E c \in 1..Len(cmds) : Step(c)
    \/ \E k \in 1..Len(timers) : FireUpload(k)
    \/ \E k \in 1..Len(timers) : FireIdle(k)

SpecEdit == InitEdit /\ [][NextEdit]_vars

\* The same with the file's view closed at any time.
InitClose == MainInit({CfgDelayed}, 0, 0) /\ CfgQuiet /\ UnitQuiet

NextClose ==
    \/ Save
    \/ UploadCurrent
    \/ CloseFile
    \/ \E c \in 1..Len(cmds) : Construct(c)
    \/ \E c \in 1..Len(cmds) : BuildOne(c)
    \/ \E c \in 1..Len(cmds) : Execute(c)
    \/ \E c \in 1..Len(cmds) : Step(c)
    \/ \E k \in 1..Len(timers) : FireUpload(k)
    \/ \E k \in 1..Len(timers) : FireIdle(k)

SpecClose == InitClose /\ [][NextClose]_vars

\* Saves and explicit uploads on a network that fails.
InitFail == MainInit({CfgDelayed}, MaxFails, 0) /\ CfgQuiet /\ UnitQuiet

SpecFail == InitFail /\ [][Next]_vars

\* No command runs in the resolver model.
MainQuiet == MainInit({CfgDelayed}, 0, 0)

InitCfg == CfgInit /\ MainQuiet /\ UnitQuiet

SpecCfg == InitCfg /\ [][CfgNext]_vars

\* Only verifyConfig runs.
InitVerify == VerifyInit /\ XferQuiet /\ CheckQuiet /\ TripQuiet /\ CtorQuiet /\ SaveQuiet /\ WatchQuiet /\ OpenQuiet /\ CfgQuiet /\ MainQuiet

SpecVerify == InitVerify /\ [][VerifyNext]_vars

\* Only a rename or a download runs.
InitXfer == XferInit /\ VerifyQuiet /\ CheckQuiet /\ TripQuiet /\ CtorQuiet /\ SaveQuiet /\ WatchQuiet /\ OpenQuiet /\ CfgQuiet /\ MainQuiet

SpecXfer == InitXfer /\ [][XferNext]_vars

\* Only a staleness check runs.
InitCheck == CheckInit /\ VerifyQuiet /\ XferQuiet /\ TripQuiet /\ CtorQuiet /\ SaveQuiet /\ WatchQuiet /\ OpenQuiet /\ CfgQuiet /\ MainQuiet

SpecCheck == InitCheck /\ [][CheckNext]_vars

\* Only an upload and a forced download of one file run.
InitTrip ==
    TripInit /\ VerifyQuiet /\ XferQuiet /\ CheckQuiet /\ CtorQuiet /\ SaveQuiet /\ WatchQuiet /\ OpenQuiet /\ CfgQuiet /\ MainQuiet

SpecTrip == InitTrip /\ [][TripNext]_vars

\* Only one command is constructed and executed.
InitCtor ==
    CtorInit /\ VerifyQuiet /\ XferQuiet /\ CheckQuiet /\ TripQuiet /\ SaveQuiet /\ WatchQuiet /\ OpenQuiet /\ CfgQuiet /\ MainQuiet

SpecCtor == InitCtor /\ [][CtorNext]_vars

\* Only saves of one file under overwrite prevention run.
InitSave ==
    SaveInit /\ VerifyQuiet /\ XferQuiet /\ CheckQuiet /\ TripQuiet /\ CtorQuiet
        /\ WatchQuiet /\ OpenQuiet /\ CfgQuiet /\ MainQuiet

SpecSave == InitSave /\ [][SaveNext]_vars

\* Only one on-save upload with its watch cascade runs.
InitWatch ==
    WatchInit /\ VerifyQuiet /\ XferQuiet /\ CheckQuiet /\ TripQuiet /\ CtorQuiet
        /\ SaveQuiet /\ OpenQuiet /\ CfgQuiet /\ MainQuiet

SpecWatch == InitWatch /\ [][WatchNext]_vars

\* Only files being opened and closed.
InitOpen ==
    OpenInit /\ VerifyQuiet /\ XferQuiet /\ CheckQuiet /\ TripQuiet /\ CtorQuiet
        /\ SaveQuiet /\ WatchQuiet /\ CfgQuiet /\ MainQuiet

SpecOpen == InitOpen /\ [][OpenNext]_vars

(***************************************************************************)
(* Claims about the config resolver.                                       *)
(***************************************************************************)

\* p lies inside directory d (d is an ancestor directory of p)
Inside(p, d) == Len(d) < Len(p) /\ SubSeq(p, 1, Len(d)) = d

\* config file c lies in a strict ancestor directory of d
InStrictAncestor(c, d) == c # None /\ Inside(d, dirname(c))

C10_InvalidatedOnNewConfig ==
    lastNew.dir # None =>
        /\ ~lastNew.raised
        /\ lastNew.dir \in fsConfig
        /\ \A p \in DOMAIN configs :
                Inside(p, lastNew.dir) => ~InStrictAncestor(configs[p], lastNew.dir)
        /\ (lastQuery.path # None /\ Inside(lastQuery.path, lastNew.dir) =>
                /\ lastQuery.result # None
                /\ ~InStrictAncestor(lastQuery.result, lastNew.dir))

\* A new config was created in /a/a while /a/a/f was cached with the config of /a.
C10_Witness ==
    /\ lastNew.dir = Chain(2)
    /\ Chain(2) \in fsConfig
    /\ layoutChanged
    /\ Append(Chain(2), <<"f">>) \in DOMAIN configs

(***************************************************************************)
(* Claims about uploads, the connection pool and the timers.               *)
(***************************************************************************)

\* The command has run every per-connection action it started.
Finished(c) == cmds[c].pc \in {"dead", "done"} /\ cmds[c].pending = 0

PutsOf(C) == {p \in puts : p.cmd \in C}

\* C1: when a second upload of the path is issued and acts while the delayed
\* action of an on-save upload is pending, then once both have run there is exactly
\* one put of the path, it is the second upload's, and the first upload's
\* deferred action was a no-op.
C1_SupersededUploadOnePut ==
    \A k \in 1..Len(cmds) :
        LET s == cmds[k].superseded
        IN  (s # 0 /\ cmds[k].stale # "none" /\ Finished(k) /\ Finished(s)) =>
                /\ Cardinality(PutsOf({k, s})) = 1
                /\ \A p \in PutsOf({k, s}) : p.cmd = s
                /\ cmds[k].stale = "noop"

\* A delayed on-save upload was superseded by an explicit upload; both have run.
C1_Witness ==
    \E k \in 1..Len(cmds) :
        /\ cmds[k].superseded # 0
        /\ cmds[k].onSave
        /\ ~cmds[cmds[k].superseded].onSave
        /\ cmds[k].stale # "none"
        /\ Finished(k)
        /\ Finished(cmds[k].superseded)

NoClose == \A r \in remote : r.call # "close"

\* C2: with connections A (upload_on_save true, no delay) and B
\* (upload_on_save false) declared in either order and both handles built and
\* still open, a finished on-save upload has made exactly one put, on the
\* handle of A.
C2_SaveUploadsToAOnly ==
    \A c \in 1..Len(cmds) :
        (/\ cmds[c].kind = "upload" /\ cmds[c].onSave /\ Finished(c)
         /\ cmds[c].aligned /\ NoClose
         /\ DOMAIN cmds[c].props = {"A", "B"}) =>
            /\ Cardinality(PutsOf({c})) = 1
            /\ \A p \in PutsOf({c}) : handles[p.handle].name = "A"

\* An on-save upload finished with B declared before A and both handles open.
C2_Witness ==
    \E c \in 1..Len(cmds) :
        /\ cmds[c].kind = "upload" /\ cmds[c].onSave /\ Finished(c)
        /\ cmds[c].aligned /\ NoClose
        /\ cfgfile.order = <<"B", "A">>
        /\ PutsOf({c}) # {}

\* The filter left the upload command no connection (after its constructor).
ZeroApplicable(c) ==
    /\ cmds[c].kind = "upload"
    /\ cmds[c].pc \in {"exec", "dead", "done"}
    /\ Len(cmds[c].order) = 0

\* C3: an upload command left with zero applicable connections, constructed
\* on an empty pool cache, makes no remote call, and has emitted exactly one
\* cancellation diagnostic once execute has returned.
C3_ZeroApplicableNoRemote ==
    \A c \in 1..Len(cmds) :
        (ZeroApplicable(c) /\ cmds[c].emptyAtStart) =>
            /\ \A r \in remote : r.cmd # c
            /\ (cmds[c].pc = "dead" => cmds[c].cancels = 1)

\* An on-save upload with no applicable connection has returned from execute.
C3_Witness ==
    \E c \in 1..Len(cmds) :
        /\ ZeroApplicable(c) /\ cmds[c].emptyAtStart
        /\ cmds[c].pc = "dead"
        /\ cmds[c].cancels = 1

\* C4: when the idle-expiry callback closes handles of the pool, no command
\* for the hash is between its entry into execute and the end of its
\* per-connection actions (deferred actions included).
C4_IdleCloseOnlyWhenIdle ==
    (lastIdle.fired /\ ~lastIdle.inUse /\ ~lastIdle.untouched) => lastIdle.busy = {}

\* The idle-expiry callback closed a pool.
C4_Witness ==
    lastIdle.fired /\ ~lastIdle.inUse /\ ~lastIdle.untouched

\* C5: an acquisition that finds a full cached pool with every handle alive
\* returns it when the config content is what the handles were built from, and
\* closes the cached handles and rebuilds when exactly one property differs.
C5_CacheHitIffSameConfig ==
    (lastAcq.cmd # 0 /\ lastAcq.cached /\ lastAcq.full /\ lastAcq.alive) =>
        /\ (lastAcq.same => lastAcq.hit)
        /\ (lastAcq.oneDiff => ~lastAcq.hit /\ lastAcq.closedOld)

\* An acquisition after one property of the connection was edited.
C5_Witness ==
    /\ lastAcq.cmd # 0 /\ lastAcq.cached /\ lastAcq.full /\ lastAcq.alive
    /\ lastAcq.oneDiff

Rebuilding == {c \in 1..Len(cmds) : cmds[c].pc = "build"}

\* C6: at most one rebuild of the pool of the hash is in progress at any time.
C6_OneRebuildAtATime == Cardinality(Rebuilding) <= 1

\* A rebuild is in progress while another command exists.
C6_Witness == Rebuilding # {} /\ Len(cmds) >= 2

\* C7: after a fire of the idle-expiry callback: if the hash was not in use,
\* every handle of the pool is closed and the pool is out of the cache; if it
\* was in use, the pool was left untouched and the callback is scheduled again.
C7_IdleFireClosesOrRearms ==
    lastIdle.fired =>
        IF lastIdle.inUse
        THEN lastIdle.untouched /\ lastIdle.rearmed
        ELSE /\ lastIdle.evicted
             /\ \A i \in 1..Len(lastIdle.pool) : handles[lastIdle.pool[i]].closed

\* The callback fired on an unused pool of two handles.
C7_Witness ==
    lastIdle.fired /\ ~lastIdle.inUse /\ Len(lastIdle.pool) = 2

\* C8: no remote call is made on the UI thread.
C8_NoRemoteCallOnUIThread == \A r \in remote : r.thread # "ui"

\* A save was handled and remote calls were made.
C8_Witness ==
    /\ \E c \in 1..Len(cmds) : cmds[c].then = "postsave"
    /\ remote # {}

(***************************************************************************)
(* Claims about verifyConfig.                                              *)
(***************************************************************************)

\* Every key of the data model is in the entry with a value of its type.
WellTyped(config) ==
    \A i \in 1..Len(typeTests) :
        /\ typeTests[i].key \in DOMAIN config
        /\ config[typeTests[i].key] \in typeTests[i].types

\* The entry is a valid one with the single key k removed.
OnlyMissing(config, k) ==
    /\ DOMAIN config = EntryKeys \ {k}
    /\ \A i \in 1..Len(typeTests) :
          typeTests[i].key # k => config[typeTests[i].key] \in typeTests[i].types

\* C11: verifyConfig never raises; it answers valid iff every key of the data
\* model is present with its type; and for a valid entry with one key removed
\* it answers invalid, naming that key.
C11_VerifyConfigNamesMissingKey ==
    verified # Unset =>
        /\ verified.kind # "raise"
        /\ (verified.kind = "valid" <=> WellTyped(entry))
        /\ \A k \in EntryKeys :
              OnlyMissing(entry, k) => verified = [kind |-> "invalid", key |-> k]

\* A valid entry without its tls key was verified: invalid, naming tls.
C11_Witness ==
    /\ OnlyMissing(entry, "tls")
    /\ verified = [kind |-> "invalid", key |-> "tls"]

(***************************************************************************)
(* Claims about the rename and download commands.                          *)
(***************************************************************************)

\* The command holds one handle per declared connection, in declared order.
FullPool == xcmd.pool = xcmd.names

\* The connections on which `op` was attempted, in the order of the attempts.
Attempted(op) ==
    LET calls == SelectSeq(xlog, LAMBDA c : c.op = op)
    IN  [i \in 1..Len(calls) |-> calls[i].name]

\* C12: in a rename whose new name exists on at least one connection, once the
\* pre-check is over the user was asked about exactly the connections where it
\* exists; and after the answer "overwrite" the rename was called with
\* forced = TRUE on every connection and the local file was renamed.
C12_OverwriteRenamesEverywhere ==
    (xcmd.kind = "rename" /\ FullPool /\ xhas # {} /\ xcmd.pc # "check") =>
        /\ xcmd.asked
        /\ xcmd.items = xhas
        /\ (xcmd.pc = "done" =>
                /\ xcmd.forced
                /\ Attempted("rename") = xcmd.names
                /\ \A i \in 1..Len(xlog) : xlog[i].op = "rename" => xlog[i].forced
                /\ xcmd.local = 1)

\* The user chose overwrite for a name that exists on A only; all was renamed.
C12_Witness ==
    /\ xcmd.kind = "rename" /\ FullPool /\ xhas = {"A"}
    /\ xcmd.pc = "done" /\ xcmd.forced /\ xcmd.items = {"A"}
    /\ Attempted("rename") = xcmd.names
    /\ xcmd.local = 1

\* C13: a rename that the user did not cancel and whose execute (or deferred
\* action) has ended has renamed the local file exactly once, whichever remote
\* calls failed.
C13_LocalRenameOnce ==
    (xcmd.kind = "rename" /\ FullPool /\ xcmd.pc \in {"done", "raised"}) =>
        xcmd.local = 1

\* A rename ended with a failed remote rename and the local file renamed.
C13_Witness ==
    /\ xcmd.kind = "rename" /\ xcmd.pc = "done" /\ xcmd.local = 1
    /\ \E i \in 1..Len(xlog) : xlog[i].op = "rename" /\ xlog[i].outcome = "fail"

\* C19: a download that has ended, its pool still complete, has attempted its
\* remote action (get for a file, list for a directory) on every connection,
\* in declared order.
C19_EveryConnectionAttempted ==
    (xcmd.kind = "download" /\ FullPool /\ xcmd.pc = "done" /\ xlog # <<>>) =>
        Attempted(IF xcmd.isDir THEN "list" ELSE "get") = xcmd.names

\* A file download went on to the second connection after the first one failed.
C19_Witness ==
    /\ xcmd.kind = "download" /\ ~xcmd.isDir /\ FullPool /\ xcmd.pc = "done"
    /\ Len(xlog) = Len(xcmd.names)
    /\ xlog[1].outcome = "fail"

(***************************************************************************)
(* Claims about the staleness check.                                       *)
(***************************************************************************)

Newer == {i \in 1..Len(chkMeta) : entryOf(chkMeta, i) \in Range(chkOut.newest)}

\* The entries put on the flag list by the different-size test.
Flagged ==
    {i \in 1..Len(chkMeta) :
        Len(SelectSeq(chkOut.every, LAMBDA e : e = entryOf(chkMeta, i)))
            > (IF i \in Newer THEN 1 ELSE 0)}

Classified ==
    /\ \A i \in 1..Len(chkMeta) :
          /\ i \in Newer <=> chkMeta[i].mtime > chkLocal.mtime
          /\ i \in Newer => i \notin Flagged
          /\ i \notin Newer => (i \in Flagged <=> chkMeta[i].size # chkLocal.size)
    /\ chkOut.prompted <=> (Newer \cup Flagged # {})
    /\ chkOut.prompted => chkOut.message = ""
    /\ ~chkOut.prompted => chkOut.message = "same size and older"

LoneSaveUpload(c) ==
    /\ cmds[c].kind = "upload" /\ cmds[c].onSave /\ Finished(c)
    /\ cmds[c].aligned /\ NoClose
    /\ Len(cmds[c].order) >= 2
    /\ cmds[c].superseded = 0
    /\ \A k \in 1..Len(cmds) : k # c => cmds[k].kind # "upload"

PutsOn(c, name) == {p \in PutsOf({c}) : handles[p.handle].name = name}

\* C20: once an on-save upload that no other upload supersedes has run all its
\* actions on open handles, each applicable connection has received exactly
\* one put of the file on its own handle, whatever the upload delays are.
C20_EachConnectionOnePut ==
    \A c \in 1..Len(cmds) :
        LoneSaveUpload(c) =>
            \A i \in 1..Len(cmds[c].order) :
                Cardinality(PutsOn(c, cmds[c].order[i])) = 1

\* An on-save upload over A and B, both delayed, has run both deferred actions.
C20_Witness ==
    \E c \in 1..Len(cmds) :
        /\ LoneSaveUpload(c)
        /\ \A n \in {"A", "B"} : cfgfile.props[n].delay > 0
        /\ PutsOf({c}) # {}

(***************************************************************************)
(* Claims about an upload followed by a download.                          *)
(***************************************************************************)

\* C15: after an upload that made at least one put and a forced download of
\* the same file that followed it, the local file has the uploaded content,
\* for every number of connections and every filter outcome of the upload.
C15_RoundTrip ==
    (trip.pc = "done" /\ trip.puts # {}) => trip.local = trip.sent

\* An on-save upload that the filter kept from one connection was followed
\* by a download that got the file from two connections.
C15_Witness ==
    /\ trip.pc = "done" /\ trip.onSave
    /\ Cardinality(trip.puts) = 1
    /\ Cardinality(trip.gets) = 2

(***************************************************************************)
(* Claims about commands without a usable config.                          *)
(***************************************************************************)

\* The config path is not a string, or names a file that does not load.
NoConfig == ~isString(ctor.ptype) \/ ~loadsConfig(ctor.file)

\* C16: a command of any kind constructed with a config path that is not a
\* string, or with a config file that fails to load, is closed after its
\* constructor, which does not raise; its execute emits the "command is
\* closed" diagnostic and makes no remote call.
C16_NoConfigClosesCommand ==
    (NoConfig /\ ctor.pc # "new") =>
        /\ ctor.raised = "none"
        /\ ctor.closed
        /\ ctor.pc = "executed" => (ctor.diag = "command is closed" /\ ~ctor.remote)

\* A rename command given None as config path was constructed and executed.
C16_Witness ==
    /\ ctor.kind = "rename" /\ ctor.new_name = "name"
    /\ ctor.ptype = "NoneType"
    /\ ctor.pc = "executed" /\ ctor.closed

(***************************************************************************)
(* Claims about the teardown of a stale pool.                              *)
(***************************************************************************)

\* The last getConnection found a non-empty pool for the hash and did not
\* return it.
StaleFound ==
    lastAcq.cmd # 0 /\ lastAcq.cached /\ ~lastAcq.hit /\ ~lastAcq.wasEmpty

\* C17: when getConnection finds a pool that is not a valid hit (too short,
\* a handle with another config hash, or a handle not alive), every handle of
\* that pool has been closed when the rebuild starts.
C17_StalePoolClosedBeforeRebuild ==
    StaleFound => lastAcq.closedOld

\* getConnection found a pool with fewer handles than declared connections.
C17_Witness ==
    StaleFound /\ lastAcq.short

(***************************************************************************)
(* Claims about the rebuild of a pool.                                     *)
(***************************************************************************)

\* The rebuild that command c ran has ended, and a stage of it failed.
RebuiltWithFailure(c) ==
    /\ cmds[c].pc \notin {"new", "build"}
    /\ cmds[c].badNames # {}

\* C18: a rebuild in which a stage of some connection failed is not aborted:
\* every declared connection was attempted, and the pool it returns holds
\* exactly the handles of the connections whose stages all succeeded, in
\* declared order, each name once.
C18_FailedStageDoesNotAbortBuild ==
    \A c \in 1..Len(cmds) :
        RebuiltWithFailure(c) =>
            /\ cmds[c].pc # "crashed"
            /\ cmds[c].tried = Len(cfgfile.order)
            /\ cmds[c].got = cmds[c].okNames

\* A rebuild over A and B in which A failed and B was built has returned.
C18_Witness ==
    \E c \in 1..Len(cmds) :
        /\ RebuiltWithFailure(c)
        /\ cmds[c].badNames = {"A"} /\ cmds[c].okNames = <<"B">>
        /\ cmds[c].got = <<"B">>

(***************************************************************************)
(* Claims about the children of a directory download and about the         *)
(* download started from the staleness prompt.                             *)
(***************************************************************************)

\* A directory download has listed the directory and run its children.
ChildrenRan ==
    /\ xcmd.kind = "download" /\ xcmd.isDir /\ xcmd.pc = "done"
    /\ Len(xcmd.kids) > 0

\* C21: in a directory download not requested as forced, a child file whose
\* remote entry is not newer than the local copy is marked skip and gets no
\* get, and a child whose entry is newer is transferred; in a forced download
\* every child is transferred.
C21_ChildSkipUnlessNewerOrForced ==
    ChildrenRan =>
        \A k \in 1..Len(xcmd.kids) :
            LET kid == xcmd.kids[k]
            IN  IF xcmd.requested \/ kid.newer
                THEN kid.gets # {}
                ELSE kid.skip /\ kid.gets = {}

\* A directory download that was not requested as forced ran a child whose
\* remote entry is newer and one whose entry is not.
C21_Witness ==
    /\ ChildrenRan /\ ~xcmd.requested
    /\ \E k \in 1..Len(xcmd.kids) : xcmd.kids[k].newer /\ xcmd.kids[k].gets # {}
    /\ \E k \in 1..Len(xcmd.kids) : ~xcmd.kids[k].newer

\* The download started by the staleness prompt for a selected connection
\* has run on a full pool.
SelectedDownloadRan ==
    /\ xcmd.kind = "download" /\ ~xcmd.isDir /\ xcmd.selected # {}
    /\ FullPool /\ xcmd.pc = "done"

\* C22: the download started by selecting a remote entry in the staleness
\* prompt is forced and calls get on the handle of the selected connection
\* and on no other.
C22_SelectedDownloadSingleConnection ==
    SelectedDownloadRan =>
        /\ xcmd.forced
        /\ \A i \in 1..Len(xlog) :
              xlog[i].op = "get" =>
                  /\ xlog[i].forced
                  /\ xlog[i].name \in xcmd.selected
                  /\ xlog[i].handle \in xcmd.selected
        /\ \E i \in 1..Len(xlog) : xlog[i].op = "get" /\ xlog[i].name \in xcmd.selected

\* The download started for the selected connection B called get on B.
C22_Witness ==
    /\ SelectedDownloadRan /\ xcmd.selected = {"B"}
    /\ \E i \in 1..Len(xlog) :
          xlog[i].op = "get" /\ xlog[i].handle = "B" /\ xlog[i].outcome = "ok"

(***************************************************************************)
(* Claims about the connections the staleness check asks.                  *)
(***************************************************************************)

\* The connections that are relevant for the caller of the check.
Relevant ==
    IF chkQuery.forced THEN Range(XNames)
    ELSE {n \in Range(XNames) : chkQuery.doo[n]}

\* C23: the staleness check asks exactly the relevant connections for
\* metadata, each on its own handle: all declared connections when started
\* by the explicit request, those with download_on_open when started by a
\* file-open, and none at all when no connection has download_on_open.
C23_QueriesRelevantConnections ==
    chkQuery.pc = "done" =>
        /\ {chkQuery.queried[i].name : i \in 1..Len(chkQuery.queried)} = Relevant
        /\ {chkQuery.queried[i].handle : i \in 1..Len(chkQuery.queried)} = Relevant

\* A check started by a file-open asked the one connection with download_on_open.
C23_Witness ==
    /\ chkQuery.pc = "done" /\ ~chkQuery.forced
    /\ Cardinality(Relevant) = 1
    /\ Len(chkQuery.queried) = 1

(***************************************************************************)
(* Claims about the staleness prompt.                                      *)
(***************************************************************************)

\* C24: the remote candidates of the staleness prompt are listed by
\* decreasing remote modification time, whatever the order of the metadata
\* results, and the answer i > 0 starts the download for the connection shown
\* at position i.
C24_PromptNewestFirst ==
    (chkOut # Unset /\ chkOut.prompted) =>
        /\ \A i, j \in 1..Len(chkOut.items) :
              i < j => chkOut.items[i].metadata.mtime >= chkOut.items[j].metadata.mtime
        /\ chkOut.index > 0 =>
              chkOut.call.arg = {chkOut.items[chkOut.index].connection}

\* The user picked the second of two candidates with different times.
C24_Witness ==
    /\ chkOut # Unset /\ chkOut.prompted
    /\ Len(chkOut.items) = 2 /\ chkOut.index = 2
    /\ chkOut.items[1].metadata.mtime # chkOut.items[2].metadata.mtime
    /\ chkOut.call # Unset

(***************************************************************************)
(* Claims about overwrite prevention.                                      *)
(***************************************************************************)

\* The pre-save check of save k found a newer remote copy on a connection
\* with upload_on_save and check_time, and the save's post-save has run.
Prevented(k) ==
    /\ \E n \in saving.saves[k].remoteNewer :
          saving.props[n].uos /\ saving.props[n].check_time
    /\ (k < Len(saving.saves) \/ saving.pc = "idle")

\* C25: when the pre-save check finds a connection with upload_on_save and
\* check_time whose remote copy is newer, the post-save of that save consumes
\* the prevent-list entry without uploading and leaves the path off the list;
\* the save starts exactly one upload once the user selects overwrite, and
\* none when the user cancels or has not answered.
C25_PreventedSaveUploadsOnlyOnOverwrite ==
    \A k \in 1..Len(saving.saves) :
        Prevented(k) =>
            /\ saving.saves[k].prompt # "none"
            /\ saving.saves[k].consumed
            /\ saving.pc = "idle" => saving.preventUpload = <<>>
            /\ saving.saves[k].uploads =
                  IF saving.saves[k].prompt = "overwrite" THEN 1 ELSE 0

\* Two prevented saves: the user overwrote for the first, cancelled the second.
C25_Witness ==
    /\ Len(saving.saves) = 2 /\ Prevented(1) /\ Prevented(2)
    /\ saving.saves[1].prompt = "overwrite" /\ saving.saves[1].uploads = 1
    /\ saving.saves[2].prompt = "cancel"

(***************************************************************************)
(* Claims about the user's decision in a rename.                           *)
(***************************************************************************)

\* A rename was called on some connection, or the local file was renamed.
Renamed == Attempted("rename") # <<>> \/ xcmd.local > 0

\* C26: in a rename on a full pool, when no connection has an entry with the
\* new name, the renames proceed once the pre-check is over, without a user
\* decision; when some connection has one, nothing is renamed remotely or
\* locally before the user's decision, and nothing ever unless the user
\* selects overwrite.
C26_RenameWaitsForDecision ==
    (xcmd.kind = "rename" /\ FullPool) =>
        /\ (xhas = {} /\ xcmd.pc # "check") =>
              (xcmd.pc \in {"act", "done"} /\ ~xcmd.asked)
        /\ (xhas # {} /\ ~xcmd.forced) => ~Renamed
        /\ xcmd.pc = "kept" => ~Renamed

\* The user dismissed the choice of a rename whose new name exists on A.
C26_Witness ==
    /\ xcmd.kind = "rename" /\ FullPool /\ xhas = {"A"}
    /\ xcmd.pc = "kept" /\ xcmd.asked /\ ~Renamed

(***************************************************************************)
(* Claims about a terminated session.                                      *)
(***************************************************************************)

\* A remote call of the command ended with EOFError.
Terminated == \E k \in 1..Len(xlog) : xlog[k].outcome = "eof"

\* C27: after a remote call of a rename or download ended with an
\* end-of-stream failure, every handle of the command's pool is closed: the
\* pool list, which a closed handle leaves, is empty.
C27_TerminatedPoolClosed == Terminated => xcmd.pool = <<>>

\* The get of a download on a pool of one handle met a terminated session
\* and the handle was closed.
C27_Witness ==
    /\ xcmd.kind = "download" /\ Terminated
    /\ xlog[Len(xlog)].op = "get"
    /\ xcmd.pool = <<>>

(***************************************************************************)
(* Claims about the watch cascade.                                         *)
(***************************************************************************)

\* The on-save upload returned and none of its callbacks is pending.
WatchSettled == watch.pc = "done" /\ watch.pending = 0

\* Connection n is uploaded to after a delay and has a watch.
Watching(n) ==
    /\ n \in Range(watch.order)
    /\ watch.props[n].upload_delay > 0
    /\ watch.props[n].after_save_watch

\* The cascades that ran for connection n.
CascadesOf(n) == {k \in 1..Len(watch.cascades) : watch.cascades[k].name = n}

\* C28: once the on-save upload is settled, for every connection n with a
\* delay and a watch there is one cascade, and it uploaded each watched file
\* that appeared or changed between the snapshot before the delay and the
\* moment after the transfer once, whitelisted to n, on the handle of n,
\* disregarding ignore patterns, and uploaded no other file.
C28_CascadeUploadsChangedFiles ==
    WatchSettled =>
        \A n \in Range(WatchNames) : Watching(n) =>
            /\ Cardinality(CascadesOf(n)) = 1
            /\ \A k \in CascadesOf(n) :
                 LET c == watch.cascades[k]
                     changed == {f \in WFiles : c.disk[f] # 0 /\ c.disk[f] # c.before[f]}
                 IN  /\ {u.file : u \in c.ups} = changed
                     /\ Cardinality(c.ups) = Cardinality(changed)
                     /\ \A u \in c.ups : /\ u.whitelist = n
                                         /\ u.handle = n
                                         /\ u.disregardIgnore

\* A config whose only on-save connection A has a delay and a watch: file 1
\* changed during the delay and was uploaded on A's handle, file 2 was not.
C28_Witness ==
    /\ WatchSettled /\ watch.order = <<"A">> /\ Watching("A")
    /\ Len(watch.cascades) = 1
    /\ watch.cascades[1].before[2] = 1
    /\ {u.file : u \in watch.cascades[1].ups} = {1}
    /\ \A u \in watch.cascades[1].ups : u.handle = "A" /\ u.whitelist = "A"

\* The uploads started by the cascades of the on-save upload.
Secondary == UNION {watch.cascades[k].ups : k \in 1..Len(watch.cascades)}

C30_NoCheckWhenClosed ==
    \A k \in 1..Len(opening.fires) :
        ~opening.fires[k].open => ~opening.fires[k].ran

\* A file was opened, closed and opened again: the timer of the first view
\* fired while the file was closed and started no check, the timer of the
\* second view fired while it was open and started one.
C30_Witness ==
    /\ Len(opening.fires) >= 2
    /\ opening.fires[1].path = opening.fires[2].path
    /\ ~opening.fires[1].open /\ ~opening.fires[1].ran
    /\ opening.fires[2].open /\ opening.fires[2].ran

(***************************************************************************)
(* Claims about the handle an action runs on.                              *)
(***************************************************************************)

\* The pool command c received holds one handle per declared connection.
FullyBuilt(c) ==
    /\ Len(cmds[c].got) = Cardinality(DOMAIN cmds[c].props)
    /\ Range(cmds[c].got) = DOMAIN cmds[c].props

\* C31: when the pool a command received holds a handle for every declared
\* connection and no handle was closed, every put the command makes for
\* connection name n is made on the handle that was built for n, whatever the
\* filter removed.
C31_ActionOnOwnHandle ==
    \A p \in puts :
        (FullyBuilt(p.cmd) /\ NoClose) => handles[p.handle].name = p.name

\* An on-save upload whose filter removed B, declared after A, made its put
\* for A on the handle of A.
C31_Witness ==
    \E p \in puts :
        /\ FullyBuilt(p.cmd) /\ NoClose
        /\ cmds[p.cmd].got = <<"A", "B">>
        /\ cmds[p.cmd].order = <<"A">>
        /\ p.name = "A" /\ handles[p.handle].name = "A"

(***************************************************************************)
(* Claims about the in-use set after the commands.                         *)
(***************************************************************************)

\* Every command that was started has ended, its deferred actions have run
\* and its object is finalized.
AllFinished ==
    /\ Len(cmds) > 0
    /\ \A c \in 1..Len(cmds) : cmds[c].pc \in {"dead", "crashed"} /\ cmds[c].pending = 0

\* C32: once every command for the hash has finished and is finalized,
\* delayed uploads whose deferred action was superseded or raised included,
\* the hash is not in the in-use set.
C32_InUseReleased == AllFinished => ~InUse(usingConnections, Hash)

\* A delayed on-save upload made its put in the deferred action, every
\* command is finished, and the idle timer then found the hash unused.
C32_Witness ==
    /\ AllFinished
    /\ \E c \in 1..Len(cmds) : cmds[c].onSave /\ cmds[c].stale = "put"
    /\ ~InUse(usingConnections, Hash)
    /\ lastIdle.fired /\ ~lastIdle.inUse

(***************************************************************************)
(* Claims about the scheduled-upload map.                                  *)
(***************************************************************************)

\* An upload command is inside the loop of execute or has a deferred action
\* that has not run.
UploadActive ==
    \E c \in 1..Len(cmds) :
        /\ cmds[c].kind = "upload"
        /\ (cmds[c].pc = "loop" \/ cmds[c].pending > 0)

\* C33: scheduledUploads holds an entry for the path only while an upload
\* action for the path is pending or running, also after a put that failed.
C33_ScheduledOnlyWhileActive ==
    TrackedFile \in DOMAIN scheduledUploads => UploadActive

\* The deferred action of a delayed upload made its put and took the entry
\* out; no upload is active.
C33_Witness ==
    /\ \E c \in 1..Len(cmds) : cmds[c].stale = "put" /\ cmds[c].pending = 0
    /\ ~UploadActive
    /\ TrackedFile \notin DOMAIN scheduledUploads

(***************************************************************************)
(* Claims about the idle-expiry timers of a pool.                          *)
(***************************************************************************)

IdleTimers == {k \in 1..Len(timers) : timers[k].kind = "idle"}

\* C34: at most one idle-expiry timer of the hash is pending, and no fire of
\* such a timer closes handles of a pool that a rebuild returned after the
\* timer was set, that is less than connection_timeout before the fire.
C34_OneIdleTimerNoEarlyClose ==
    /\ Cardinality(IdleTimers) <= 1
    /\ ~lastIdle.early

\* The only idle-expiry timer fired after the one rebuild so far and closed
\* the pool.
C34_Witness ==
    /\ lastIdle.fired /\ ~lastIdle.inUse /\ ~lastIdle.untouched /\ ~lastIdle.early
    /\ Builds = 1
    /\ IdleTimers = {}

(***************************************************************************)
(* Claims about handles outside the cache.                                 *)
(***************************************************************************)

\* The handles in the cache entry of the hash.
Pooled ==
    IF Hash \in DOMAIN connections THEN Range(lists[connections[Hash]]) ELSE {}

\* C35: every handle whose connect was attempted is in the cache entry of
\* its hash or has been closed.
C35_OpenHandlesAreCached ==
    \A hid \in 1..Len(handles) : handles[hid].closed \/ hid \in Pooled

\* A connect failed and its handle was closed; a later rebuild put its open
\* handle into the cache entry.
C35_Witness ==
    /\ \E hid \in 1..Len(handles) : handles[hid].closed /\ hid \notin Pooled
    /\ \E hid \in 1..Len(handles) : ~handles[hid].closed /\ hid \in Pooled
    /\ \A hid \in 1..Len(handles) : handles[hid].closed \/ hid \in Pooled

(***************************************************************************)
(* Claims about closing a file while a command runs.                       *)
(***************************************************************************)

\* The commands that are executing on the handles of the cached pool.
BusyOnPool ==
    {c \in Busy : /\ Hash \in DOMAIN connections
                  /\ cmds[c].conns = connections[Hash]
                  /\ Len(lists[connections[Hash]]) > 0}

\* C36: no step of on_close closes the handles of the cached pool while a
\* command for the hash is between its entry into execute and the end of its
\* actions on that pool.
C36_FileCloseRespectsInUse == [][CloseFile => BusyOnPool = {}]_vars

\* The file was closed while no command was using the pool: a handle is
\* closed without any fire of the idle timer, and every action of every
\* command had run by then without a failure.
C36_Witness ==
    /\ ~lastIdle.fired
    /\ \E hid \in 1..Len(handles) : handles[hid].closed
    /\ Busy = {}
    /\ puts # {}
    /\ \A c \in 1..Len(cmds) : cmds[c].failures = 0 /\ cmds[c].pc = "dead"

=============================================================================
